---- MODULE Spec2Model ----
(***************************************************************************)
(* Audit orchestration pipeline of AC-Acai (first_model).                  *)
(*                                                                         *)
(* The IO facade (first_model/io/IO.py) drives Law -> Attacker -> Auditor  *)
(* -> Database.  One pipeline invocation is modelled as a sequence of      *)
(* steps, one per blocking call to a collaborator or to the record store;  *)
(* every store call may raise.  The store tables are sequences of rows.    *)
(***************************************************************************)
EXTENDS Integers, Sequences, FiniteSets, TLC

\* ----------------------------------------------------------------------
\* Bounds of the model
\* ----------------------------------------------------------------------
MaxScenarios == 2
MaxRuns == 2
MaxAudits == 1
MaxIssues == 2
MaxConvId == 1
MaxChatConvs == 1
MaxAttempts == 5
MaxMessages == 2
MaxTextLen == 3
MaxTargets == 2
MaxRank == 3
MaxLists == 2

\* ----------------------------------------------------------------------
\* Values
\* ----------------------------------------------------------------------
Null == "null"
NoId == 0
SynthesizeRange == 10
HypotheticalRange == 5
LastAttempt == 4
TopK == 3
Projects == {1, 2}
AuditStatuses == {"pending", "in_progress", "completed", "failed"}
DefaultPrompt == "Please provide clarification."
MockQuestion == "Can you provide more details about user consent and data flows?"
MockReasoning == "Mock reasoning for scenario"

VARIABLES
    law, attacker, auditor,   \* IO.__init__: agents that initialised (TRUE) or were skipped
    Document,                 \* table Document: rows [doc_id, project_id, type]
    Article_Entry,            \* table Article_Entry: ent_ids in row order
    Audit,                    \* table Audit: rows [audit_id, project_id, status]
    Issue,                    \* table Issue
    Conversation,             \* table Conversation
    Message,                  \* table Message
    chatboxes,                \* IO._chatboxes: conv_ids with a registered Chatbox
    run,                      \* the pipeline invocation in flight / last returned
    statusLog,                \* per audit_id, the successive values of its status
    nRuns,                    \* pipeline invocations started
    ret,                      \* the value the last facade call handed to its caller
    workers,                  \* invocations of the status-updating pipeline that are
                              \* suspended while another thread runs
    call                      \* a function call under examination: arguments and result

vars == <<law, attacker, auditor, Document, Article_Entry, Audit, Issue,
          Conversation, Message, chatboxes, run, statusLog, nRuns, ret, workers, call>>

\* state used only by the specifications other than Spec
aside == <<ret, workers, call>>

store == <<Document, Article_Entry, Audit, Issue, Conversation, Message>>
agents == <<law, attacker, auditor>>

\* ----------------------------------------------------------------------
\* Helpers on sequences
\* ----------------------------------------------------------------------
Range(s) == {s[i] : i \in DOMAIN s}

Min(a, b) == IF a < b THEN a ELSE b

Take(s, k) == [i \in 1..(IF k < Len(s) THEN k ELSE Len(s)) |-> s[i]]

RECURSIVE SelectDocIds(_, _)
SelectDocIds(rows, p) ==
    IF rows = <<>> THEN <<>>
    ELSE IF Head(rows).project_id = p
         THEN <<Head(rows).doc_id>> \o SelectDocIds(Tail(rows), p)
         ELSE SelectDocIds(Tail(rows), p)

\* ----------------------------------------------------------------------
\* IO._ok / IO._err
\* ----------------------------------------------------------------------
_ok(data) == [ok |-> TRUE, data |-> <<data>>, error |-> Null]

_err(msg) == [ok |-> FALSE, data |-> <<>>, error |-> msg]

NoResult == [ok |-> FALSE, data |-> <<>>, error |-> "pending call"]

\* ----------------------------------------------------------------------
\* Database
\* ----------------------------------------------------------------------
\* Database.load_document_ids
load_document_ids(p) == SelectDocIds(Document, p)

\* Database.get_next_id / store-generated serial id: one more than the maximum
MaxOf(S) == IF S = {} THEN 0 ELSE CHOOSE m \in S : \A x \in S : x <= m

get_next_id(rows, field) ==
    LET ids == {rows[i][field] : i \in DOMAIN rows}
    IN  IF ids = {} THEN 1 ELSE MaxOf(ids) + 1

\* Database.project_audit: the status literal it inserts
project_audit_status == "in_progess"

\* Database.update_audit_status: UPDATE Audit SET status WHERE audit_id = a
update_audit_status(rows, a, st) ==
    [i \in DOMAIN rows |->
        IF rows[i].audit_id = a THEN [rows[i] EXCEPT !.status = st] ELSE rows[i]]

\* the successive values an observer of Audit.status sees: a write is logged
\* when it changes the stored value
LogStatus(log, rows, a, st) ==
    IF \E i \in DOMAIN rows : rows[i].audit_id = a /\ rows[i].status # st
    THEN [log EXCEPT ![a] = Append(@, st)]
    ELSE log

StatusOf(a) == (CHOOSE i \in DOMAIN Audit : Audit[i].audit_id = a)

AuditExists(a) == \E i \in DOMAIN Audit : Audit[i].audit_id = a

AuditStatus(a) == Audit[StatusOf(a)].status

\* server.audit_run passes the project the audit row was created for
ProjectOf(a) == IF AuditExists(a) THEN Audit[StatusOf(a)].project_id ELSE NoId


\* ----------------------------------------------------------------------
\* Inputs and collaborator responses
\* ----------------------------------------------------------------------
\* Document tables the store may hold: project 1 owns the documents, project 2 none
DocumentTables ==
    { << [doc_id |-> 1, project_id |-> 1, type |-> "PRD"] >>,
      << [doc_id |-> 1, project_id |-> 1, type |-> "PRD"],
         [doc_id |-> 2, project_id |-> 1, type |-> "TDD"] >> }

ArticleTables == { <<1>> }

\* law_citations lists a validated generator batch may carry (List[int], unconstrained)
CitationLists == { <<>>, <<1>> }

AttackScenarios ==
    { [law_citations |-> c, prd_spans |-> <<0>>, src |-> "attacker"] : c \in CitationLists }

\* AttackScenario (pydantic): the fields without a default
RequiredKeys ==
    {"description", "potential_violations", "jurisdictions", "law_citations", "rationale"}

\* scenario objects in the JSON the Attacker's generator may produce: complete
\* ones, one without prd_spans (the field has default_factory = list), and one
\* without law_citations (a required field)
RawItems ==
    { [keys |-> RequiredKeys \cup {"prd_spans"}, law_citations |-> c, prd_spans |-> <<0>>] :
          c \in CitationLists }
    \cup { [keys |-> RequiredKeys, law_citations |-> <<1>>, prd_spans |-> <<>>] }
    \cup { [keys |-> RequiredKeys \ {"law_citations"}, law_citations |-> <<>>,
            prd_spans |-> <<0>>] }

\* what messages.create gives Attacker.run_attack: an exception, an empty body,
\* text that is no JSON, or a JSON object with a list of k scenarios
GeneratorOutputs(n) ==
    { [kind |-> k, scenarios |-> <<>>] : k \in {"error", "empty_body", "bad_json"} }
    \cup { [kind |-> "json", scenarios |-> b] :
              b \in UNION { [1..k -> RawItems] : k \in 0..(n + 1) } }

Batches(n) == { o.scenarios : o \in GeneratorOutputs(n) }

\* AuditBundle.model_validate on one scenario object
schema_ok(item) == RequiredKeys \subseteq item.keys

\* bundle.model_dump() of one validated scenario
model_dump(item) ==
    [law_citations |-> item.law_citations,
     prd_spans |-> IF "prd_spans" \in item.keys THEN item.prd_spans ELSE <<>>,
     src |-> "attacker"]

Raised(msg) == [raised |-> TRUE, error |-> msg, scenarios |-> <<>>]

\* a validation that does not compare the count with max_n
_validate_bundle_or_explain_Mut(data, max_n) ==
    IF \E k \in DOMAIN data : ~schema_ok(data[k])
    THEN Raised("Claude output failed schema validation.")
    ELSE [raised |-> FALSE, error |-> Null,
          scenarios |-> [k \in DOMAIN data |-> model_dump(data[k])]]

\* Attacker._validate_bundle_or_explain
_validate_bundle_or_explain(data, max_n) ==
    IF \E k \in DOMAIN data : ~schema_ok(data[k])
    THEN Raised("Claude output failed schema validation.")
    ELSE IF Len(data) # max_n
    THEN Raised("Expected exactly max_n scenarios")
    ELSE [raised |-> FALSE, error |-> Null,
          scenarios |-> [k \in DOMAIN data |-> model_dump(data[k])]]

\* a run_attack that answers a rejected batch with an empty bundle
run_attack_Mut(out, max_n) ==
    IF out.kind = "json" /\ ~_validate_bundle_or_explain(out.scenarios, max_n).raised
    THEN _validate_bundle_or_explain(out.scenarios, max_n)
    ELSE [raised |-> FALSE, error |-> Null, scenarios |-> <<>>]

\* Attacker.run_attack, from the generator's answer on
run_attack(out, max_n) ==
    IF out.kind = "error" THEN Raised("generator error")
    ELSE IF out.kind = "empty_body" THEN Raised("Claude returned an empty response body.")
    ELSE IF out.kind = "bad_json" THEN Raised("Claude did not return valid JSON.")
    ELSE _validate_bundle_or_explain(out.scenarios, max_n)

\* what the generator answered, as far as validation is concerned
NoGen == [kind |-> "none", count |-> 0, schema_ok |-> TRUE]

GenOf(out) ==
    [kind |-> out.kind, count |-> Len(out.scenarios),
     schema_ok |-> \A k \in DOMAIN out.scenarios : schema_ok(out.scenarios[k])]

\* JSON values the auditor's generator may return
\* evidence maps document ids to span ids; only its key set is kept.  The
\* generator's JSON is not checked: it may name a document of the project
\* (1) or any other id (9)
Judgments ==
    { [reasoning |-> "R", evidence |-> {}, clarification_question |-> ""],
      [reasoning |-> "R", evidence |-> {1}, clarification_question |-> "Q"],
      [reasoning |-> "R", evidence |-> {9}, clarification_question |-> "Q"] }

Responses ==
    { [shape |-> "dict", items |-> <<j>>] : j \in Judgments }
    \cup { [shape |-> "list", items |-> <<j>>] : j \in Judgments }
    \cup { [shape |-> "list", items |-> <<>>], [shape |-> "null", items |-> <<>>] }

\* ----------------------------------------------------------------------
\* The pipeline invocation record
\* ----------------------------------------------------------------------
IdleRun ==
    [kind |-> "none", pc |-> "idle", audit_id |-> NoId, project_id |-> NoId,
     max_scenarios |-> 0, doc_ids |-> <<>>, ent_ids |-> <<>>, scenarios |-> <<>>,
     i |-> 1, first |-> <<>>, issue_id |-> NoId, conv_id |-> NoId,
     issues_out |-> <<>>, res |-> NoResult, trace |-> <<>>,
     markOk |-> FALSE, finalOk |-> FALSE, status0 |-> Null,
     llmFirstOk |-> 0, llmCalls |-> 0, auditorRaised |-> FALSE,
     faulted |-> FALSE, issues0 |-> 0,
     attack |-> "none", gen |-> NoGen]

Resting == run.pc \in {"idle", "done"}

Ev(r, e) == [r EXCEPT !.trace = Append(@, e)]

\* a store or generator call of this invocation raised
Fault(r) == [r EXCEPT !.faulted = TRUE]

\* except Exception as e: return self._err(str(e))   (IO.py 389-391, 504-506)
AfterPipeline(kind) == IF kind = "and_update" THEN "final" ELSE "done"

Fail(r, msg) == [r EXCEPT !.res = _err(msg), !.pc = AfterPipeline(r.kind)]

\* an envelope whose count is kept only by run_audit_pipeline
OkData_Mut(r) ==
    [audit_id |-> r.audit_id, project_id |-> r.project_id, doc_ids |-> r.doc_ids,
     ent_ids |-> r.ent_ids, issues |-> r.issues_out,
     count |-> IF r.kind = "new" THEN Len(r.issues_out) ELSE 0]

\* return self._ok({... "issues": issues_out, "count": len(issues_out)})
OkData(r) ==
    [audit_id |-> r.audit_id, project_id |-> r.project_id, doc_ids |-> r.doc_ids,
     ent_ids |-> r.ent_ids, issues |-> r.issues_out, count |-> Len(r.issues_out)]

\* a loop that stops after the first scenario
LoopHead_Mut(r) ==
    IF r.i <= Len(r.scenarios) /\ r.i <= 1
    THEN [r EXCEPT !.pc = "auditor"]
    ELSE [r EXCEPT !.res = _ok(OkData(r)), !.pc = AfterPipeline(r.kind)]

\* for scenario in scenarios: ... ; return self._ok(...)
LoopHead(r) ==
    IF r.i <= Len(r.scenarios)
    THEN [r EXCEPT !.pc = "auditor"]
    ELSE [r EXCEPT !.res = _ok(OkData(r)), !.pc = AfterPipeline(r.kind)]

\* _mock_ent_ids(k = 3): ids or [1, 2, 3][:k]; any exception gives [1, 2, 3][:k]
_mock_ent_ids(rows, failed) ==
    IF failed \/ Take(rows, 3) = <<>> THEN <<1, 2, 3>> ELSE Take(rows, 3)

\* mock scenarios that cite the fixed fallback ids instead of ent_ids
_mock_scenarios_Mut(max_n, ent_ids) ==
    [k \in 1..max_n |-> [law_citations |-> <<1, 2, 3>>, prd_spans |-> <<>>, src |-> "mock"]]

\* _mock_scenarios(max_n, ent_ids, prd_doc_id)
MockCitations(ent_ids) == IF Take(ent_ids, 3) = <<>> THEN <<1>> ELSE Take(ent_ids, 3)

_mock_scenarios(max_n, ent_ids) ==
    [k \in 1..max_n |->
        [law_citations |-> MockCitations(ent_ids), prd_spans |-> <<>>, src |-> "mock"]]

\* the mock audit response of an unavailable Auditor
MockJudgment ==
    [reasoning |-> MockReasoning, evidence |-> {}, clarification_question |-> MockQuestion]

\* first = audit_resp[0] if non-empty list, audit_resp if dict, else None
Normalize(resp) ==
    IF resp.shape = "list" /\ resp.items # <<>> THEN <<resp.items[1]>>
    ELSE IF resp.shape = "dict" THEN <<resp.items[1]>>
    ELSE <<>>

\* (first or {}).get(key, "")
Get(first, key) == IF first = <<>> THEN "" ELSE first[1][key]

GetEvidence(first) == IF first = <<>> THEN {} ELSE first[1].evidence

\* an Issue that never cites a law entry
ent_id_for_issue_Mut(law_used) == -1

\* ent_id_for_issue = int(law_used[0]) if law_used else -1
ent_id_for_issue(law_used) == IF law_used # <<>> THEN law_used[1] ELSE -1

\* a seed content without the default prompt
SeedContent_Mut(qn) == qn

\* content = clarification_qn or "Please provide clarification."
SeedContent(qn) == IF qn # "" THEN qn ELSE DefaultPrompt

\* ----------------------------------------------------------------------
\* Values of ret, workers and call while they are not in use
\* ----------------------------------------------------------------------
\* ret: the operation, the type of the returned value ("dict", "str", "none")
\* and, for a dict, the envelope
NoRet == [op |-> "none", returned |-> "dict", res |-> NoResult]

Workers == {1}

NoWorkers == [w \in Workers |-> IdleRun]

NoCall == [fn |-> "none"]

\* ----------------------------------------------------------------------
\* Init
\* ----------------------------------------------------------------------
Init ==
    /\ law \in BOOLEAN
    /\ attacker \in BOOLEAN
    /\ auditor \in BOOLEAN
    /\ Document \in DocumentTables
    /\ Article_Entry \in ArticleTables
    /\ Audit = <<>>
    /\ Issue = <<>>
    /\ Conversation = <<>>
    /\ Message = <<>>
    /\ chatboxes = {}
    /\ run = IdleRun
    /\ statusLog = [a \in 1..MaxAudits |-> <<>>]
    /\ nRuns = 0
    /\ ret = NoRet
    /\ workers = NoWorkers
    /\ call = NoCall

\* ----------------------------------------------------------------------
\* IO.create_audit -> Database.save_audit (status "pending" at both call sites
\* of server.audit_run)
\* ----------------------------------------------------------------------
save_audit_row(p, st) ==
    [audit_id |-> get_next_id(Audit, "audit_id"), project_id |-> p, status |-> st]

create_audit(p, st) ==
    /\ Resting
    /\ Len(Audit) < MaxAudits
    /\ \E raised \in BOOLEAN :
          IF raised
          THEN UNCHANGED <<Audit, statusLog>>
          ELSE LET row == save_audit_row(p, st)
               IN  /\ Audit' = Append(Audit, row)
                   /\ statusLog' = [statusLog EXCEPT ![row.audit_id] = Append(@, st)]
    /\ run' = IdleRun
    /\ UNCHANGED <<aside, agents, Document, Article_Entry, Issue, Conversation, Message,
                   chatboxes, nRuns>>

\* ----------------------------------------------------------------------
\* Entry points of the pipeline
\* ----------------------------------------------------------------------
NewRun(kind, a, p, n) ==
    [IdleRun EXCEPT !.kind = kind, !.audit_id = a, !.project_id = p,
                    !.max_scenarios = n, !.issues0 = Len(Issue),
                    !.pc = IF kind = "and_update" THEN "mark" ELSE "docs"]

CanStart(n) ==
    /\ Resting
    /\ nRuns < MaxRuns
    /\ Len(Issue) + n <= MaxIssues

run_audit_pipeline(p, n) ==
    /\ CanStart(n)
    /\ Len(Audit) < MaxAudits
    /\ run' = NewRun("new", NoId, p, n)
    /\ nRuns' = nRuns + 1
    /\ UNCHANGED <<aside, agents, store, chatboxes, statusLog>>

run_audit_pipeline_for_audit(a, p, n) ==
    /\ AuditExists(a)
    /\ CanStart(n)
    /\ run' = NewRun("for_audit", a, p, n)
    /\ nRuns' = nRuns + 1
    /\ UNCHANGED <<aside, agents, store, chatboxes, statusLog>>

run_audit_pipeline_for_audit_and_update(a, p, n) ==
    /\ AuditExists(a)
    /\ CanStart(n)
    /\ run' = [NewRun("and_update", a, p, n) EXCEPT !.status0 = AuditStatus(a)]
    /\ nRuns' = nRuns + 1
    /\ UNCHANGED <<aside, agents, store, chatboxes, statusLog>>

\* ----------------------------------------------------------------------
\* run_audit_pipeline_for_audit_and_update: the status writes
\* ----------------------------------------------------------------------
\* try: update_audit_status(audit_id, "in_progress") except: pass     (IO.py 512-515)
MarkInProgress ==
    /\ run.pc = "mark"
    /\ \E raised \in BOOLEAN :
          /\ Audit' = IF raised THEN Audit
                      ELSE update_audit_status(Audit, run.audit_id, "in_progress")
          /\ statusLog' = IF raised THEN statusLog
                          ELSE LogStatus(statusLog, Audit, run.audit_id, "in_progress")
          /\ run' = [run EXCEPT !.pc = "docs", !.markOk = ~raised,
                                 !.faulted = raised]
    /\ UNCHANGED <<aside, agents, Document, Article_Entry, Issue, Conversation, Message,
                   chatboxes, nRuns>>

\* a final write that ignores the envelope
FinalStatusFor_Mut(ok) == "completed"

\* if res.get("ok"): "completed" else: "failed"                      (IO.py 517-526)
FinalStatusFor(ok) == IF ok THEN "completed" ELSE "failed"

FinalStatus ==
    /\ run.pc = "final"
    /\ \E raised \in BOOLEAN :
          LET st == FinalStatusFor(run.res.ok)
          IN  /\ Audit' = IF raised THEN Audit
                          ELSE update_audit_status(Audit, run.audit_id, st)
              /\ statusLog' = IF raised THEN statusLog
                              ELSE LogStatus(statusLog, Audit, run.audit_id, st)
              /\ run' = [run EXCEPT !.pc = "done", !.finalOk = ~raised,
                                     !.faulted = @ \/ raised]
    /\ UNCHANGED <<aside, agents, Document, Article_Entry, Issue, Conversation, Message,
                   chatboxes, nRuns>>

\* ----------------------------------------------------------------------
\* Stage 1: document ids                                       (IO.py 275-277)
\* ----------------------------------------------------------------------
\* a pipeline that skips the "if not doc_ids" check
AfterDocs_Mut(r, doc_ids) == [r EXCEPT !.doc_ids = doc_ids, !.pc = "law"]

AfterDocs(r, doc_ids) ==
    IF doc_ids = <<>>
    THEN Fail(r, "no documents found for project")
    ELSE [r EXCEPT !.doc_ids = doc_ids, !.pc = "law"]

LoadDocumentIds ==
    /\ run.pc = "docs"
    /\ \E raised \in BOOLEAN :
          run' = IF raised
                 THEN Fail(Fault(Ev(run, "docs")), "store error")
                 ELSE AfterDocs(Ev(run, "docs"), load_document_ids(run.project_id))
    /\ UNCHANGED <<aside, agents, store, chatboxes, statusLog, nRuns>>

\* ----------------------------------------------------------------------
\* Stage 2: Law -> ent_ids                                     (IO.py 295-306)
\* Law.audit(self, bill, doc_ids, top_k=3) is called as audit(doc_ids=doc_ids):
\* the required parameter bill is missing, so the call raises TypeError.
\* ----------------------------------------------------------------------
LawAuditError == "Law.audit() missing 1 required positional argument: 'bill'"

LawAuditCall(r) == Fail(Ev(r, "law.audit"), LawAuditError)

LawStage ==
    /\ run.pc = "law"
    /\ IF law
       THEN run' = LawAuditCall(run)
       ELSE \E raised \in BOOLEAN :
               run' = [run EXCEPT !.ent_ids = _mock_ent_ids(Article_Entry, raised),
                                  !.pc = "attacker", !.faulted = @ \/ raised]
    /\ UNCHANGED <<aside, agents, store, chatboxes, statusLog, nRuns>>

\* ----------------------------------------------------------------------
\* Stage 3: Attacker -> scenarios                              (IO.py 322-330)
\* ----------------------------------------------------------------------
\* a loop entry that goes to the Issue insert of the first scenario at once
AfterAttacker_Mut(r, scenarios) ==
    LET sc == IF scenarios = <<>> THEN _mock_scenarios(r.max_scenarios, r.ent_ids)
              ELSE scenarios
        r2 == [r EXCEPT !.scenarios = sc, !.i = 1]
        h == LoopHead(r2)
    IN  IF r.kind = "new" THEN [r2 EXCEPT !.pc = "audit_row"]
        ELSE IF h.pc = "auditor" THEN [h EXCEPT !.pc = "issue", !.first = <<MockJudgment>>]
        ELSE h

AfterAttacker(r, scenarios) ==
    LET sc == IF scenarios = <<>> THEN _mock_scenarios(r.max_scenarios, r.ent_ids)
              ELSE scenarios
        r2 == [r EXCEPT !.scenarios = sc, !.i = 1]
    IN  IF r.kind = "new" THEN [r2 EXCEPT !.pc = "audit_row"] ELSE LoopHead(r2)

AttackerStage ==
    /\ run.pc = "attacker"
    /\ IF attacker
       THEN \E out \in GeneratorOutputs(run.max_scenarios) :
               LET bundle == run_attack(out, run.max_scenarios)
                   r == [Ev(run, "attacker.run_attack") EXCEPT !.gen = GenOf(out)]
               IN  run' = IF bundle.raised
                          THEN Fail(Fault([r EXCEPT !.attack = "raised"]), bundle.error)
                          ELSE AfterAttacker([r EXCEPT !.attack = "returned"],
                                             bundle.scenarios)
       ELSE run' = AfterAttacker([run EXCEPT !.attack = "unavailable"], <<>>)
    /\ UNCHANGED <<aside, agents, store, chatboxes, statusLog, nRuns>>

\* ----------------------------------------------------------------------
\* Stage 4: Database.project_audit                  (IO.py 333, Database.py 405-408)
\* ----------------------------------------------------------------------
project_audit_row(p) ==
    [audit_id |-> get_next_id(Audit, "audit_id"), project_id |-> p,
     status |-> project_audit_status]

ProjectAudit ==
    /\ run.pc = "audit_row"
    /\ \E raised \in BOOLEAN :
          IF raised
          THEN /\ run' = Fail(Fault(run), "store error")
               /\ UNCHANGED <<Audit, statusLog>>
          ELSE LET row == project_audit_row(run.project_id)
               IN  /\ Audit' = Append(Audit, row)
                   /\ statusLog' = [statusLog EXCEPT ![row.audit_id] = Append(@, row.status)]
                   /\ run' = LoopHead([Ev(run, "Audit") EXCEPT !.audit_id = row.audit_id])
    /\ UNCHANGED <<aside, agents, Document, Article_Entry, Issue, Conversation, Message,
                   chatboxes, nRuns>>

\* ----------------------------------------------------------------------
\* Stage 5a: Auditor.audit                      (IO.py 341-349, Auditor.py 30-91)
\* ----------------------------------------------------------------------
\* Auditor.__fetch_article_entry_content raises for an ent_id without a row
\* a fetch that accepts every id
fetch_article_entries_ok_Mut(ent_ids) == TRUE

fetch_article_entries_ok(ent_ids) == \A e \in Range(ent_ids) : e \in Range(Article_Entry)

\* Auditor.__fetch_document_content raises unless a PRD and a TDD are among doc_ids
DocTypes(doc_ids) ==
    {Document[k].type : k \in {j \in DOMAIN Document : Document[j].doc_id \in Range(doc_ids)}}

fetch_document_content_ok(doc_ids) == {"PRD", "TDD"} \subseteq DocTypes(doc_ids)

\* Auditor.__llm_audit: one messages.create call, json.loads of its text; an API
\* error, an empty body or unparsable text propagates.  firstOk is the first
\* attempt at which the generator would answer with parsable JSON (0: never).
llm_audit_calls(firstOk) == 1

llm_audit_raises(firstOk) == firstOk # 1

AuditorRaise(r, msg) == Fail([r EXCEPT !.auditorRaised = TRUE], msg)

AuditorStage ==
    /\ run.pc = "auditor"
    /\ IF ~auditor
       THEN run' = [run EXCEPT !.first = <<MockJudgment>>, !.pc = "issue",
                               !.llmFirstOk = 0, !.llmCalls = 0]
       ELSE LET r == [Ev(run, "auditor.audit") EXCEPT !.llmFirstOk = 0, !.llmCalls = 0]
            IN  \/ run' = AuditorRaise(Fault(r), "store error")
                \/ /\ ~fetch_article_entries_ok(r.ent_ids)
                   /\ run' = AuditorRaise(r, "Article not found")
                \/ /\ fetch_article_entries_ok(r.ent_ids)
                   /\ ~fetch_document_content_ok(r.doc_ids)
                   /\ run' = AuditorRaise(r, "Expected one PRD and one TDD document in doc_ids")
                \/ /\ fetch_article_entries_ok(r.ent_ids)
                   /\ fetch_document_content_ok(r.doc_ids)
                   /\ \E firstOk \in 0..MaxAttempts :
                         LET r2 == [Ev(r, "llm") EXCEPT !.llmFirstOk = firstOk,
                                                        !.llmCalls = llm_audit_calls(firstOk)]
                         IN  IF llm_audit_raises(firstOk)
                             THEN run' = AuditorRaise(Fault(r2), "generator error")
                             ELSE \E resp \in Responses :
                                     run' = [r2 EXCEPT !.first = Normalize(resp),
                                                       !.pc = "issue"]
    /\ UNCHANGED <<aside, agents, store, chatboxes, statusLog, nRuns>>

\* ----------------------------------------------------------------------
\* Stage 5b: Issue, Conversation, seed Message   (IO.py 358-379, Database.py 410-435)
\* ----------------------------------------------------------------------
create_issue_row(r) ==
    [issue_id |-> get_next_id(Issue, "issue_id"),
     audit_id |-> r.audit_id,
     issue_description |-> Get(r.first, "reasoning"),
     ent_id |-> ent_id_for_issue(r.scenarios[r.i].law_citations),
     status |-> "open",
     evidence |-> GetEvidence(r.first),
     clarification_qn |-> Get(r.first, "clarification_question")]

CreateIssue ==
    /\ run.pc = "issue"
    /\ \E raised \in BOOLEAN :
          IF raised
          THEN /\ run' = Fail(Fault(run), "store error")
               /\ UNCHANGED Issue
          ELSE LET row == create_issue_row(run)
               IN  /\ Issue' = Append(Issue, row)
                   /\ run' = [Ev(run, "Issue") EXCEPT !.issue_id = row.issue_id,
                                                      !.pc = "conv"]
    /\ UNCHANGED <<aside, agents, Document, Article_Entry, Audit, Conversation, Message,
                   chatboxes, statusLog, nRuns>>

create_conversation_row(r) ==
    [conv_id |-> get_next_id(Conversation, "conv_id"),
     audit_id |-> r.audit_id, issue_id |-> r.issue_id]

CreateConversation ==
    /\ run.pc = "conv"
    /\ \E raised \in BOOLEAN :
          IF raised
          THEN /\ run' = Fail(Fault(run), "store error")
               /\ UNCHANGED Conversation
          ELSE LET row == create_conversation_row(run)
               IN  /\ Conversation' = Append(Conversation, row)
                   /\ run' = [Ev(run, "Conversation") EXCEPT !.conv_id = row.conv_id,
                                                             !.pc = "msg"]
    /\ UNCHANGED <<aside, agents, Document, Article_Entry, Audit, Issue, Message,
                   chatboxes, statusLog, nRuns>>

send_first_message_row(r) ==
    [msg_id |-> get_next_id(Message, "msg_id"),
     conv_id |-> r.conv_id,
     type |-> "ai",
     content |-> SeedContent(Get(r.first, "clarification_question"))]

IssueOut(r) ==
    [issue_id |-> r.issue_id, conv_id |-> r.conv_id,
     reason |-> Get(r.first, "reasoning"),
     clarification_qn |-> Get(r.first, "clarification_question")]

SendFirstMessage ==
    /\ run.pc = "msg"
    /\ \E raised \in BOOLEAN :
          IF raised
          THEN /\ run' = Fail(Fault(run), "store error")
               /\ UNCHANGED Message
          ELSE /\ Message' = Append(Message, send_first_message_row(run))
               /\ run' = LoopHead([Ev(run, "Message") EXCEPT
                                      !.issues_out = Append(@, IssueOut(run)),
                                      !.i = @ + 1])
    /\ UNCHANGED <<aside, agents, Document, Article_Entry, Audit, Issue, Conversation,
                   chatboxes, statusLog, nRuns>>

\* ----------------------------------------------------------------------
\* IO.get_or_create_chatbox -> Chatbox.__init__ -> Database.get_conversation
\* conv_id 0 stands for None
\* ----------------------------------------------------------------------
ConvExists(c) == \E k \in DOMAIN Conversation : Conversation[k].conv_id = c

ChatConvs == {k \in DOMAIN Conversation : Conversation[k].issue_id = NoId}

\* the row get_conversation inserts: {"conv_id": ..., "audit_id": None}
get_conversation_row(c) == [conv_id |-> c, audit_id |-> NoId, issue_id |-> NoId]

\* except Exception: return conv_id if conv_id is not None else 1
get_conversation_fallback(c) == IF c # NoId THEN c ELSE 1

get_or_create_chatbox(c) ==
    /\ Resting
    /\ ~(c # NoId /\ c \in chatboxes)
    /\ \/ \* a store call of get_conversation raises
          /\ chatboxes' = chatboxes \cup {get_conversation_fallback(c)}
          /\ UNCHANGED Conversation
       \/ \* the row exists
          /\ c # NoId /\ ConvExists(c)
          /\ chatboxes' = chatboxes \cup {c}
          /\ UNCHANGED Conversation
       \/ \* not found, or no conv_id given: insert
          /\ ~(c # NoId /\ ConvExists(c))
          /\ Cardinality(ChatConvs) < MaxChatConvs
          /\ LET id == IF c # NoId THEN c ELSE get_next_id(Conversation, "conv_id")
             IN  /\ Conversation' = Append(Conversation, get_conversation_row(id))
                 /\ chatboxes' = chatboxes \cup {id}
    /\ run' = IdleRun
    /\ UNCHANGED <<aside, agents, Document, Article_Entry, Audit, Issue, Message,
                   statusLog, nRuns>>

\* Chatbox.reload: the Message rows of a conversation, in insertion order
MsgsOfConvRows(c) == SelectSeq(Message, LAMBDA m : m.conv_id = c)

\* ----------------------------------------------------------------------
\* Specification
\* ----------------------------------------------------------------------
Next ==
    \/ \E p \in Projects : create_audit(p, "pending")
    \/ \E p \in Projects, n \in 0..MaxScenarios : run_audit_pipeline(p, n)
    \/ \E a \in 1..MaxAudits, n \in 0..MaxScenarios :
          run_audit_pipeline_for_audit(a, ProjectOf(a), n)
    \/ \E a \in 1..MaxAudits, n \in 0..MaxScenarios :
          run_audit_pipeline_for_audit_and_update(a, ProjectOf(a), n)
    \/ MarkInProgress
    \/ LoadDocumentIds
    \/ LawStage
    \/ AttackerStage
    \/ ProjectAudit
    \/ AuditorStage
    \/ CreateIssue
    \/ CreateConversation
    \/ SendFirstMessage
    \/ FinalStatus
    \/ \E c \in 0..MaxConvId : get_or_create_chatbox(c)

Spec == Init /\ [][Next]_vars

\* ----------------------------------------------------------------------
\* The facade's other public operations (IO.py 60-258, 535-615): each is one
\* call, and ret records what the caller gets back
\* ----------------------------------------------------------------------
Contents == {"", "hi"}

Returns(op, res) == [op |-> op, returned |-> "dict", res |-> res]

NoChatbox == _err("chatbox not found; call get_or_create_chatbox first")

\* self.auditor.audit(message) if hasattr(self.auditor, "audit") else None:
\* Auditor.audit(self, ent_ids, doc_ids, threat_scenario) called with one
\* argument raises TypeError; the Attacker has no attribute attack
AuditMessageError == "Auditor.audit() missing 2 required positional arguments"

\* Chatbox.append_message row
append_message_row(c, role, content) ==
    [msg_id |-> get_next_id(Message, "msg_id"), conv_id |-> c, type |-> role,
     content |-> content]

\* IO.post_user_message: the envelope, given whether the Message insert raised
post_user_message_res(c, content, raised) ==
    IF content = "" THEN _err("message is empty")
    ELSE IF c \notin chatboxes THEN NoChatbox
    ELSE IF raised THEN _err("failed to persist message")
    ELSE _ok([msg |-> append_message_row(c, "user", content)])

\* IO.infer_and_record: the envelope
infer_and_record_res(c) ==
    IF c \notin chatboxes THEN NoChatbox
    ELSE IF auditor THEN _err(AuditMessageError)
    ELSE _ok([audit |-> Null, attack |-> Null])

\* IO.handle_incoming: the envelope, from those of its two steps
handle_incoming_res(post, infer, run_inference) ==
    IF ~post.ok THEN post
    ELSE IF ~run_inference THEN _ok([posted |-> post.data])
    ELSE IF ~infer.ok THEN infer
    ELSE _ok([posted |-> post.data, inference |-> infer.data])

IOFrame == UNCHANGED <<agents, Document, Article_Entry, Issue, run, statusLog, nRuns,
                       workers, call>>

IO_ping ==
    /\ ret' = Returns("ping", _ok([service |-> "io", status |-> "ok"]))
    /\ UNCHANGED <<Audit, Conversation, Message, chatboxes>>
    /\ IOFrame

IO_get_or_create_chatbox(c) ==
    /\ IF c # NoId /\ c \in chatboxes
       THEN /\ ret' = Returns("get_or_create_chatbox", _ok([conv_id |-> c, created |-> FALSE]))
            /\ UNCHANGED <<Conversation, chatboxes>>
       ELSE \/ /\ chatboxes' = chatboxes \cup {get_conversation_fallback(c)}
               /\ ret' = Returns("get_or_create_chatbox",
                                 _ok([conv_id |-> get_conversation_fallback(c), created |-> TRUE]))
               /\ UNCHANGED Conversation
            \/ /\ c # NoId /\ ConvExists(c)
               /\ chatboxes' = chatboxes \cup {c}
               /\ ret' = Returns("get_or_create_chatbox", _ok([conv_id |-> c, created |-> TRUE]))
               /\ UNCHANGED Conversation
            \/ /\ ~(c # NoId /\ ConvExists(c))
               /\ Cardinality(ChatConvs) < MaxChatConvs
               /\ LET id == IF c # NoId THEN c ELSE get_next_id(Conversation, "conv_id")
                  IN  /\ Conversation' = Append(Conversation, get_conversation_row(id))
                      /\ chatboxes' = chatboxes \cup {id}
                      /\ ret' = Returns("get_or_create_chatbox",
                                        _ok([conv_id |-> id, created |-> TRUE]))
    /\ UNCHANGED <<Audit, Message>>
    /\ IOFrame

IO_get_history(c) ==
    /\ ret' = Returns("get_history",
                      IF c \notin chatboxes THEN NoChatbox
                      ELSE _ok([conv_id |-> c, messages |-> MsgsOfConvRows(c)]))
    /\ UNCHANGED <<Audit, Conversation, Message, chatboxes>>
    /\ IOFrame

IO_post_user_message(c, content) ==
    /\ Len(Message) < MaxMessages
    /\ \E raised \in BOOLEAN :
          LET res == post_user_message_res(c, content, raised)
          IN  /\ ret' = Returns("post_user_message", res)
              /\ Message' = IF res.ok THEN Append(Message, append_message_row(c, "user", content))
                            ELSE Message
    /\ UNCHANGED <<Audit, Conversation, chatboxes>>
    /\ IOFrame

IO_infer_and_record(c) ==
    /\ ret' = Returns("infer_and_record", infer_and_record_res(c))
    /\ UNCHANGED <<Audit, Conversation, Message, chatboxes>>
    /\ IOFrame

IO_handle_incoming(c, content, run_inference) ==
    /\ Len(Message) < MaxMessages
    /\ \E raised \in BOOLEAN :
          LET post == post_user_message_res(c, content, raised)
          IN  /\ ret' = Returns("handle_incoming",
                                handle_incoming_res(post, infer_and_record_res(c), run_inference))
              /\ Message' = IF post.ok THEN Append(Message, append_message_row(c, "user", content))
                            ELSE Message
    /\ UNCHANGED <<Audit, Conversation, chatboxes>>
    /\ IOFrame

IO_process_message ==
    /\ ret' = Returns("process_message",
                      IF auditor THEN _err(AuditMessageError)
                      ELSE _ok([audit |-> Null, attack |-> Null]))
    /\ UNCHANGED <<Audit, Conversation, Message, chatboxes>>
    /\ IOFrame

\* IO.create_audit: _ok(the store's response) or _err(str(e))
IO_create_audit(p, st) ==
    /\ Len(Audit) < MaxAudits
    /\ \E raised \in BOOLEAN :
          IF raised
          THEN /\ ret' = Returns("create_audit", _err("store error"))
               /\ UNCHANGED Audit
          ELSE /\ Audit' = Append(Audit, save_audit_row(p, st))
               /\ ret' = Returns("create_audit", _ok(save_audit_row(p, st)))
    /\ UNCHANGED <<Conversation, Message, chatboxes>>
    /\ IOFrame

\* IO.output_chatbox: return message
IO_output_chatbox(message) ==
    /\ ret' = [op |-> "output_chatbox", returned |-> "str", res |-> NoResult]
    /\ UNCHANGED <<Audit, Conversation, Message, chatboxes>>
    /\ IOFrame

\* IO.display: two prints, no return statement
IO_display ==
    /\ ret' = [op |-> "display", returned |-> "none", res |-> NoResult]
    /\ UNCHANGED <<Audit, Conversation, Message, chatboxes>>
    /\ IOFrame

NextIO ==
    \/ IO_ping
    \/ \E c \in 0..MaxConvId : IO_get_or_create_chatbox(c)
    \/ \E c \in 1..MaxConvId : IO_get_history(c)
    \/ \E c \in 1..MaxConvId, content \in Contents : IO_post_user_message(c, content)
    \/ \E c \in 1..MaxConvId : IO_infer_and_record(c)
    \/ \E c \in 1..MaxConvId, content \in Contents, run_inference \in BOOLEAN :
          IO_handle_incoming(c, content, run_inference)
    \/ IO_process_message
    \/ \E p \in Projects : IO_create_audit(p, "pending")
    \/ \E message \in Contents : IO_output_chatbox(message)
    \/ IO_display

SpecIO == Init /\ [][NextIO]_vars

\* ----------------------------------------------------------------------
\* Concurrent triggers (server.py 452-501): audit_run is a plain def, so
\* FastAPI runs each request, and each background task, on a thread of its
\* pool. run is the invocation of the thread that is scheduled, workers are
\* the suspended ones; a thread can be preempted between any two store calls.
\* Configuration: no API keys (all agents on their mock paths), PRD and TDD
\* present.
\* ----------------------------------------------------------------------
InitTriggers ==
    /\ Init
    /\ ~law /\ ~attacker /\ ~auditor
    /\ load_document_ids(1) # <<>>

Switch(w) ==
    /\ workers[w] # run
    /\ run' = workers[w]
    /\ workers' = [workers EXCEPT ![w] = run]
    /\ UNCHANGED <<ret, call, agents, store, chatboxes, statusLog, nRuns>>

NextTriggers ==
    \/ \E p \in Projects : create_audit(p, "pending")
    \/ \E a \in 1..MaxAudits, n \in 1..MaxScenarios :
          run_audit_pipeline_for_audit_and_update(a, ProjectOf(a), n)
    \/ \E w \in Workers : Switch(w)
    \/ MarkInProgress
    \/ LoadDocumentIds
    \/ LawStage
    \/ AttackerStage
    \/ AuditorStage
    \/ CreateIssue
    \/ CreateConversation
    \/ SendFirstMessage
    \/ FinalStatus

SpecTriggers == InitTriggers /\ [][NextTriggers]_vars

\* ----------------------------------------------------------------------
\* Span indexer: get_span_ranges (Database.py 7-21) applied to the encoding of
\* a text. Strings are sequences of tokens: a character, or a whole tag.
\* ----------------------------------------------------------------------
Chars == {"a", "b", "<", "\n"}

Texts == UNION { [1..n -> Chars] : n \in 0..MaxTextLen }

SpanNumbers == 0..MaxTextLen

\* "span7"
SpanId(i) == "span" \o ToString(i)

\* "<span7>" and "</span7>", the two shapes <(span\d+)> and </\1> of the pattern
OpenTag(i) == "<" \o SpanId(i) \o ">"

CloseTag(i) == "</" \o SpanId(i) \o ">"

\* str.split("\n")
RECURSIVE split(_)
split(text) ==
    IF \A p \in DOMAIN text : text[p] # "\n" THEN <<text>>
    ELSE LET p == CHOOSE q \in DOMAIN text :
                      text[q] = "\n" /\ \A k \in 1..(q - 1) : text[k] # "\n"
         IN  <<SubSeq(text, 1, p - 1)>> \o split(SubSeq(text, p + 1, Len(text)))

\* str.splitlines(): the lines without their terminators, no empty last line
splitlines(text) ==
    LET parts == split(text)
    IN  IF parts[Len(parts)] = <<>> THEN SubSeq(parts, 1, Len(parts) - 1) ELSE parts

\* HTML escaping of one character
escape_char(c) == IF c = "<" THEN <<"&", "l", "t", ";">> ELSE <<c>>

RECURSIVE escape(_)
escape(unit) == IF unit = <<>> THEN <<>> ELSE escape_char(Head(unit)) \o escape(Tail(unit))

\* encode(text): unit i wrapped as <span{i}>{escaped unit}</span{i}>, 0-based
RECURSIVE wrap(_, _)
wrap(units, i) ==
    IF units = <<>> THEN <<>>
    ELSE <<OpenTag(i)>> \o escape(Head(units)) \o <<CloseTag(i)>> \o wrap(Tail(units), i + 1)

encode(text) == wrap(splitlines(text), 0)

\* span_pattern.findall(content_span): non-overlapping matches from left to
\* right; (.*?) with DOTALL stops at the nearest closing tag of the same id
RECURSIVE findall(_, _)
findall(s, pos) ==
    IF pos > Len(s) THEN <<>>
    ELSE LET ids == {i \in SpanNumbers : s[pos] = OpenTag(i)}
             closes == {q \in (pos + 1)..Len(s) : \E i \in ids : s[q] = CloseTag(i)}
         IN  IF closes = {} THEN findall(s, pos + 1)
             ELSE LET q == CHOOSE c \in closes : \A d \in closes : c <= d
                      i == CHOOSE j \in ids : TRUE
                  IN  <<[span_id |-> SpanId(i), inner_text |-> SubSeq(s, pos + 1, q - 1)]>>
                      \o findall(s, q + 1)

\* span_map.get(span_id): a dict keeps the last value of a repeated key;
\* <<>> stands for both None and "" (the code tests `if inner:`)
span_map_get(matches, span_id) ==
    LET ks == {k \in DOMAIN matches : matches[k].span_id = span_id}
    IN  IF ks = {} THEN <<>> ELSE matches[MaxOf(ks)].inner_text

\* a search that reports the last occurrence
find_Mut(content, inner) ==
    LET at == {p \in 0..(Len(content) - Len(inner)) :
                  SubSeq(content, p + 1, p + Len(inner)) = inner}
    IN  IF at = {} THEN -1 ELSE CHOOSE p \in at : \A q \in at : q <= p

\* content.find(inner): lowest 0-based index, or -1
find(content, inner) ==
    LET at == {p \in 0..(Len(content) - Len(inner)) :
                  SubSeq(content, p + 1, p + Len(inner)) = inner}
    IN  IF at = {} THEN -1 ELSE CHOOSE p \in at : \A q \in at : p <= q

\* a loop without the test start != -1
RECURSIVE resolve_each_Mut(_, _, _)
resolve_each_Mut(content, matches, target_spans) ==
    IF target_spans = <<>> THEN <<>>
    ELSE LET inner == span_map_get(matches, Head(target_spans))
             start == find(content, inner)
             rest == resolve_each_Mut(content, matches, Tail(target_spans))
         IN  IF inner # <<>>
             THEN <<[start |-> start, end |-> start + Len(inner)]>> \o rest
             ELSE rest

RECURSIVE resolve_each(_, _, _)
resolve_each(content, matches, target_spans) ==
    IF target_spans = <<>> THEN <<>>
    ELSE LET inner == span_map_get(matches, Head(target_spans))
             start == find(content, inner)
             rest == resolve_each(content, matches, Tail(target_spans))
         IN  IF inner # <<>> /\ start # -1
             THEN <<[start |-> start, end |-> start + Len(inner)]>> \o rest
             ELSE rest

get_span_ranges(content, content_span, target_spans) ==
    resolve_each(content, findall(content_span, 1), target_spans)

\* content[start:end]
Slice(content, range) == SubSeq(content, range.start + 1, range.end)

InitSpan ==
    /\ law = FALSE /\ attacker = FALSE /\ auditor = FALSE
    /\ Document = <<>> /\ Article_Entry = <<>>
    /\ Audit = <<>> /\ Issue = <<>> /\ Conversation = <<>> /\ Message = <<>>
    /\ chatboxes = {}
    /\ run = IdleRun
    /\ statusLog = [a \in 1..MaxAudits |-> <<>>]
    /\ nRuns = 0
    /\ ret = NoRet
    /\ workers = NoWorkers
    /\ \E text \in Texts : call = [fn |-> "text", content |-> text]

SpanFrame == UNCHANGED <<agents, store, chatboxes, run, statusLog, nRuns, ret, workers>>

\* the document is saved with its span-wrapped form beside the canonical text
Encode ==
    /\ call.fn = "text"
    /\ call' = [fn |-> "encode", content |-> call.content,
                content_span |-> encode(call.content)]
    /\ SpanFrame

\* get_span_ranges(content, content_span, ["span{i}"])
Resolve(i) ==
    /\ call.fn = "encode"
    /\ call' = [fn |-> "get_span_ranges", content |-> call.content,
                content_span |-> call.content_span, i |-> i,
                results |-> get_span_ranges(call.content, call.content_span, <<SpanId(i)>>)]
    /\ SpanFrame

\* Stored content_span values: any string. Two pieces side by side, a piece
\* being a wrapped text, a lone tag or plain text (model/eval.py 49 stores
\* content_span = content, without tags).
Inners == { <<>>, <<"a">>, <<"b">>, <<"a", "b">> }

Pieces ==
    { <<OpenTag(i)>> \o inner \o <<CloseTag(i)>> : i \in 0..1, inner \in Inners }
    \cup { <<OpenTag(0)>>, <<CloseTag(0)>>, <<"a">>, <<>> }

SpanTexts == { p \o q : p, q \in Pieces }

\* the list of span ids an Issue's evidence holds for the document
TargetLists == UNION { [1..n -> {SpanId(i) : i \in SpanNumbers}] : n \in 0..MaxTargets }

\* Database.load_document_with_highlighting:
\*   content = document.get("content") or ""
\*   content_span = document.get("content_span") or ""
\*   highlighting = get_span_ranges(content, content_span, value)
Highlight(content_span, value) ==
    /\ call.fn = "text"
    /\ call' = [fn |-> "highlight", content |-> call.content,
                content_span |-> content_span, target_spans |-> value,
                results |-> get_span_ranges(call.content, content_span, value)]
    /\ SpanFrame

NextSpan ==
    \/ Encode
    \/ \E i \in SpanNumbers : Resolve(i)
    \/ \E content_span \in SpanTexts, value \in TargetLists : Highlight(content_span, value)

SpecSpan == InitSpan /\ [][NextSpan]_vars

\* ----------------------------------------------------------------------
\* Retrieval helpers of the v2 Attacker (Attackerv2.py 237-305): pure
\* functions of their arguments and of what the external services answer
\* ----------------------------------------------------------------------
\* the pipeline state, untouched by a helper call
NoPipeline ==
    /\ law = FALSE /\ attacker = FALSE /\ auditor = FALSE
    /\ Document = <<>> /\ Article_Entry = <<>>
    /\ Audit = <<>> /\ Issue = <<>> /\ Conversation = <<>> /\ Message = <<>>
    /\ chatboxes = {}
    /\ run = IdleRun
    /\ statusLog = [a \in 1..MaxAudits |-> <<>>]
    /\ nRuns = 0
    /\ ret = NoRet
    /\ workers = NoWorkers

\* key = (item["doc_id"], item["chunk_id"])
Keys == {"A", "B", "C"}

\* a rank list: the rows one retrieval call returns, no row twice
RankLists ==
    { l \in UNION { [1..n -> Keys] : n \in 0..MaxRank } :
        \A i, j \in DOMAIN l : l[i] = l[j] => i = j }

RankListSets == UNION { [1..m -> RankLists] : m \in 0..MaxLists }

\* k_rrf values: the default 60 and two small ones
KRrf == {0, 1, 60}

\* for lst in lists: for rank, item in enumerate(lst, 1): the visits in order;
\* src tells which list's item it is
RECURSIVE Visits(_, _)
Visits(lists, l) ==
    IF l > Len(lists) THEN <<>>
    ELSE [r \in 1..Len(lists[l]) |-> [key |-> lists[l][r], src |-> l, rank |-> r]]
         \o Visits(lists, l + 1)

\* scores are exact fractions over one denominator, the product of the
\* k_rrf + r for all ranks r
RECURSIVE Denominator(_, _)
Denominator(k_rrf, r) == IF r = 0 THEN 1 ELSE (k_rrf + r) * Denominator(k_rrf, r - 1)

\* 1.0 / (k_rrf + rank), as a numerator over Denominator(k_rrf, MaxRank)
Reciprocal(k_rrf, rank) == Denominator(k_rrf, MaxRank) \div (k_rrf + rank)

\* an accumulation that keeps the last contribution only
RECURSIVE Accumulate_Mut(_, _, _)
Accumulate_Mut(visits, k_rrf, fused) ==
    IF visits = <<>> THEN fused
    ELSE LET v == Head(visits)
             at == {i \in DOMAIN fused : fused[i].key = v.key}
         IN  Accumulate_Mut(Tail(visits), k_rrf,
                 IF at = {}
                 THEN Append(fused, [key |-> v.key, src |-> v.src,
                                     rrf_score |-> Reciprocal(k_rrf, v.rank)])
                 ELSE [i \in DOMAIN fused |->
                          IF i \in at
                          THEN [fused[i] EXCEPT !.rrf_score = Reciprocal(k_rrf, v.rank)]
                          ELSE fused[i]])

\* scored[key] = scored.get(key, 0.0) + 1.0 / (k_rrf + rank);
\* if key not in meta: meta[key] = item;   dicts keep insertion order
RECURSIVE Accumulate(_, _, _)
Accumulate(visits, k_rrf, fused) ==
    IF visits = <<>> THEN fused
    ELSE LET v == Head(visits)
             at == {i \in DOMAIN fused : fused[i].key = v.key}
         IN  Accumulate(Tail(visits), k_rrf,
                 IF at = {}
                 THEN Append(fused, [key |-> v.key, src |-> v.src,
                                     rrf_score |-> Reciprocal(k_rrf, v.rank)])
                 ELSE [i \in DOMAIN fused |->
                          IF i \in at
                          THEN [fused[i] EXCEPT !.rrf_score = @ + Reciprocal(k_rrf, v.rank)]
                          ELSE fused[i]])

\* insert x behind the last element of the sorted sequence that is not below it
InsertDesc(sorted, x, field) ==
    LET before == {i \in DOMAIN sorted : sorted[i][field] >= x[field]}
        n == Cardinality(before)
    IN  SubSeq(sorted, 1, n) \o <<x>> \o SubSeq(sorted, n + 1, Len(sorted))

\* a sort without reverse=True: ascending
RECURSIVE SortDesc_Mut(_, _)
SortDesc_Mut(seq, field) ==
    IF seq = <<>> THEN <<>>
    ELSE LET sorted == SortDesc_Mut(SubSeq(seq, 1, Len(seq) - 1), field)
             x == seq[Len(seq)]
             n == Cardinality({i \in DOMAIN sorted : sorted[i][field] <= x[field]})
         IN  SubSeq(sorted, 1, n) \o <<x>> \o SubSeq(sorted, n + 1, Len(sorted))

\* list.sort(key=lambda x: x[field], reverse=True): stable, descending
RECURSIVE SortDesc(_, _)
SortDesc(seq, field) ==
    IF seq = <<>> THEN <<>>
    ELSE InsertDesc(SortDesc(SubSeq(seq, 1, Len(seq) - 1), field), seq[Len(seq)], field)

_rrf(lists, k_rrf, top_n) ==
    Take(SortDesc(Accumulate(Visits(lists, 1), k_rrf, <<>>), "rrf_score"), top_n)

\* what the reranking service answers: an error, or results (index into the
\* documents, relevance_score), each document at most once
Relevances == {1, 2}

RerankResults(n) ==
    { r \in [1..n -> [index : 1..MaxRank, relevance_score : Relevances]] :
        \A i, j \in 1..n : r[i].index = r[j].index => i = j }

RerankAnswers(docs, top_n) ==
    {[kind |-> "error", results |-> <<>>]}
    \cup { [kind |-> "results", results |-> r] :
              r \in { x \in RerankResults(top_n) : \A i \in 1..top_n : x[i].index <= Len(docs) } }

\* a fallback that hands back the whole list
_cohere_rerank_Mut(co, docs, top_k, resp) ==
    IF ~co THEN [raised |-> FALSE, out |-> docs]
    ELSE IF resp.kind = "error" THEN [raised |-> TRUE, out |-> <<>>]
    ELSE [raised |-> FALSE,
          out |-> SortDesc([i \in DOMAIN resp.results |->
                              [key |-> docs[resp.results[i].index].key,
                               src |-> docs[resp.results[i].index].src,
                               rrf_score |-> docs[resp.results[i].index].rrf_score,
                               rerank_score |-> resp.results[i].relevance_score]],
                           "rerank_score")]

\* _cohere_rerank(query, docs, top_k); co: self._co is set, resp: the answer
\* of self._co.rerank(..., top_n=min(top_k, len(docs)))
_cohere_rerank(co, docs, top_k, resp) ==
    IF ~co THEN [raised |-> FALSE, out |-> Take(docs, top_k)]
    ELSE IF resp.kind = "error" THEN [raised |-> TRUE, out |-> <<>>]
    ELSE [raised |-> FALSE,
          out |-> SortDesc([i \in DOMAIN resp.results |->
                              [key |-> docs[resp.results[i].index].key,
                               src |-> docs[resp.results[i].index].src,
                               rrf_score |-> docs[resp.results[i].index].rrf_score,
                               rerank_score |-> resp.results[i].relevance_score]],
                           "rerank_score")]

\* texts of the generator, as sequences of characters
Queries == { <<>>, <<"q">> }

\* self.llm_client.messages.create(...): an error, or a response whose
\* content is empty or holds one text block
Generations ==
    {[kind |-> "error", content |-> <<>>], [kind |-> "response", content |-> <<>>]}
    \cup { [kind |-> "response", content |-> <<text>>] :
              text \in { <<>>, <<" ">>, <<"h">>, <<" ", "h", " ">> } }

\* str.strip()
RECURSIVE lstrip(_)
lstrip(text) == IF text # <<>> /\ Head(text) = " " THEN lstrip(Tail(text)) ELSE text

RECURSIVE rstrip(_)
rstrip(text) ==
    IF text # <<>> /\ text[Len(text)] = " " THEN rstrip(SubSeq(text, 1, Len(text) - 1))
    ELSE text

strip(text) == rstrip(lstrip(text))

\* _hyde_expand(query): the create call is not guarded;
\* return (resp.content[0].text.strip() if resp.content else "") or query
_hyde_expand(query, resp) ==
    IF resp.kind = "error" THEN [raised |-> TRUE, out |-> <<>>]
    ELSE LET text == IF resp.content # <<>> THEN strip(resp.content[1]) ELSE <<>>
         IN  [raised |-> FALSE, out |-> IF text # <<>> THEN text ELSE query]

InitFuse ==
    /\ NoPipeline
    /\ \/ \E lists \in RankListSets : call = [fn |-> "lists", lists |-> lists]
       \/ \E query \in Queries : call = [fn |-> "query", query |-> query]

FuseFrame == UNCHANGED <<agents, store, chatboxes, run, statusLog, nRuns, ret, workers>>

Fuse(k_rrf, top_n) ==
    /\ call.fn = "lists"
    /\ call' = [fn |-> "_rrf", lists |-> call.lists, k_rrf |-> k_rrf, top_n |-> top_n,
                fused |-> _rrf(call.lists, k_rrf, top_n)]
    /\ FuseFrame

\* reranked = self._cohere_rerank(prd_snippet, fused, top_k=final_top)
Rerank(co, top_k) ==
    /\ call.fn = "_rrf"
    /\ \E resp \in RerankAnswers(call.fused, Min(top_k, Len(call.fused))) :
          LET r == _cohere_rerank(co, call.fused, top_k, resp)
          IN  call' = [fn |-> "_cohere_rerank", co |-> co, docs |-> call.fused,
                       top_k |-> top_k, raised |-> r.raised, out |-> r.out]
    /\ FuseFrame

\* hyp = self._hyde_expand(prd_snippet)
HydeExpand ==
    /\ call.fn = "query"
    /\ \E resp \in Generations :
          LET r == _hyde_expand(call.query, resp)
          IN  call' = [fn |-> "_hyde_expand", query |-> call.query, resp |-> resp,
                       raised |-> r.raised, out |-> r.out]
    /\ FuseFrame

NextFuse ==
    \/ \E k_rrf \in KRrf, top_n \in 0..MaxRank : Fuse(k_rrf, top_n)
    \/ \E co \in BOOLEAN, top_k \in 0..MaxRank : Rerank(co, top_k)
    \/ HydeExpand

SpecFuse == InitFuse /\ [][NextFuse]_vars

\* ----------------------------------------------------------------------
\* The Law Retriever (Law.py 74-207): Law.audit and its two generator loops.
\* call holds the frame of the invocation: arguments, loop counters, the
\* calls made and the seconds slept so far, and how it ended.
\* ----------------------------------------------------------------------
\* bill arguments: "missing" is the pipeline's call self.law.audit(doc_ids=doc_ids)
Bills == {"missing", "All", "GDPR"}

\* doc_ids arguments: what load_document_ids gives, none, or an unknown id
DocIdLists == { <<>>, <<1>>, <<1, 2>>, <<9>> }

GeneratedTexts == {"", "text"}

NoResponse == "None"

\* for attempt in range(n): the frame at the top of the loop
LoopStart(fn, n, bill, doc_ids) ==
    [fn |-> fn, bill |-> bill, doc_ids |-> doc_ids, range |-> n, pc |-> "try",
     attempt |-> 0, calls |-> 0, fails |-> 0, waits |-> <<>>, response |-> NoResponse,
     error |-> Null, result |-> NoResponse]

Ended(frame, pc, error, result) ==
    [frame EXCEPT !.pc = pc, !.error = error, !.result = result]

\* one iteration: try: response = generate_content(...); break
\* except: if attempt == 5 - 1: print(...) else: time.sleep(2 ** attempt)
Iterate(frame, ok, text) ==
    LET f == [frame EXCEPT !.calls = @ + 1]
    IN  IF ok
        THEN [f EXCEPT !.response = text, !.pc = "after"]
        ELSE LET g == [f EXCEPT !.fails = @ + 1,
                                !.waits = IF f.attempt = LastAttempt THEN @
                                          ELSE Append(@, 2 ^ f.attempt),
                                !.attempt = @ + 1]
             IN  [g EXCEPT !.pc = IF g.attempt < g.range THEN "try" ELSE "after"]

DocIdsOf(rows) == {rows[i].doc_id : i \in DOMAIN rows}

InitLaw ==
    /\ NoPipeline
    /\ call = NoCall

LawFrame == UNCHANGED <<agents, store, chatboxes, run, statusLog, nRuns, ret, workers>>

\* Law.audit(bill, doc_ids, top_k = 3) up to the first generator call:
\* binding the arguments, __fetch_document_content for every doc_id
LawAudit(bill, doc_ids) ==
    /\ call = NoCall
    /\ \E rows \in DocumentTables, raised \in BOOLEAN :
          LET frame == LoopStart("__synthesize_documents", SynthesizeRange, bill, doc_ids)
          IN  call' = IF bill = "missing"
                      THEN Ended(frame, "raised", LawAuditError, NoResponse)
                      ELSE IF raised
                      THEN Ended(frame, "raised", "store error", NoResponse)
                      ELSE IF ~(Range(doc_ids) \subseteq DocIdsOf(rows))
                      THEN Ended(frame, "raised", "Document not found", NoResponse)
                      ELSE frame
    /\ LawFrame

\* Law.__generate_hypothetical_document(query)
GenerateHypotheticalDocument ==
    /\ call = NoCall
    /\ call' = LoopStart("__generate_hypothetical_document", HypotheticalRange, "All", <<>>)
    /\ LawFrame

\* one pass through the loop body of either generator loop
GenerateContent ==
    /\ call # NoCall
    /\ call.pc = "try"
    /\ \E ok \in BOOLEAN, text \in GeneratedTexts : call' = Iterate(call, ok, text)
    /\ LawFrame

\* after the loop of __synthesize_documents: f.write(response.text); return
\* response.text; then Law.audit prints the JSON part and returns nothing
SynthesizeReturn ==
    /\ call # NoCall
    /\ call.pc = "after" /\ call.fn = "__synthesize_documents"
    /\ call' = IF call.response = NoResponse
               THEN Ended(call, "raised", "'NoneType' object has no attribute 'text'", NoResponse)
               ELSE Ended(call, "returned", Null, NoResponse)
    /\ LawFrame

\* return response.text if response else ""
HypotheticalReturn ==
    /\ call # NoCall
    /\ call.pc = "after" /\ call.fn = "__generate_hypothetical_document"
    /\ call' = Ended(call, "returned", Null,
                     IF call.response = NoResponse THEN "" ELSE call.response)
    /\ LawFrame

NextLaw ==
    \/ \E bill \in Bills, doc_ids \in DocIdLists : LawAudit(bill, doc_ids)
    \/ GenerateHypotheticalDocument
    \/ GenerateContent
    \/ SynthesizeReturn
    \/ HypotheticalReturn

SpecLaw == InitLaw /\ [][NextLaw]_vars

\* ----------------------------------------------------------------------
\* AttackScenario.description validator (model/Attacker.py).  A description
\* is a sequence of tokens; the literal "(Attack vector:" is one token.
\* ----------------------------------------------------------------------
MaxDescLen == 4

AttackVector == "(Attack vector:"

DescTokens == {AttackVector, ")", "(", " ", "\n", "-", "x"}

Descriptions == UNION { [1..n -> DescTokens] : n \in 0..MaxDescLen }

\* str.strip() and the regex class \s
Whitespace == {" ", "\n"}

RECURSIVE str_lstrip(_)
str_lstrip(s) == IF s # <<>> /\ Head(s) \in Whitespace THEN str_lstrip(Tail(s)) ELSE s

RECURSIVE str_rstrip(_)
str_rstrip(s) ==
    IF s # <<>> /\ s[Len(s)] \in Whitespace THEN str_rstrip(SubSeq(s, 1, Len(s) - 1))
    ELSE s

str_strip(s) == str_rstrip(str_lstrip(s))

\* PLACEHOLDER_PAREN = "(Attack vector: unspecified)"
PLACEHOLDER_PAREN == <<AttackVector, " ", "unspecified", ")">>

\* w matches \s*.+\s* : some non-empty stretch without a newline, with only
\* whitespace before and after it
MatchesBody(w) ==
    \E i \in 1..Len(w) : \E j \in i..Len(w) :
        /\ \A k \in i..j : w[k] # "\n"
        /\ \A k \in 1..(i - 1) : w[k] \in Whitespace
        /\ \A k \in (j + 1)..Len(w) : w[k] \in Whitespace

\* PAREN_RE.search(s), PAREN_RE = r"\(Attack vector:\s*.+\s*\)$"; "$" also
\* matches just before one trailing newline
PAREN_RE_search(s) ==
    \E e \in {Len(s), Len(s) - 1} :
        /\ e >= 1
        /\ e = Len(s) - 1 => s[Len(s)] = "\n"
        /\ s[e] = ")"
        /\ \E p \in 1..(e - 1) :
            /\ s[p] = AttackVector
            /\ MatchesBody(SubSeq(s, p + 1, e - 1))

\* s.endswith((" ", "(", "-", ...))
EndsWithSeparator(s) == s[Len(s)] \in {" ", "(", "-"}

ensure_parenthetical_Mut(v) ==
    LET s == str_strip(v)
        sep == IF Len(s) = 0 \/ EndsWithSeparator(s) THEN <<>> ELSE <<" ">>
    IN  s \o sep \o PLACEHOLDER_PAREN

\* AttackScenario.ensure_parenthetical (field_validator, mode="before"), for
\* a str value.  must_have_parenthetical carries no decorator (the decorator
\* is inside a comment), so it is never run.
ensure_parenthetical(v) ==
    LET s == str_strip(v)
        sep == IF Len(s) = 0 \/ EndsWithSeparator(s) THEN <<>> ELSE <<" ">>
    IN  IF ~PAREN_RE_search(s) THEN s \o sep \o PLACEHOLDER_PAREN ELSE s

InitScenario ==
    /\ NoPipeline
    /\ \E v \in Descriptions : call = [fn |-> "description", v |-> v]

ScenarioFrame == UNCHANGED <<agents, store, chatboxes, run, statusLog, nRuns, ret, workers>>

\* AttackScenario(description=v, ...): the validator runs on the raw value
Validate ==
    /\ call.fn = "description"
    /\ call' = [fn |-> "ensure_parenthetical", v |-> call.v,
                out |-> ensure_parenthetical(call.v)]
    /\ ScenarioFrame

\* the validated description is validated again (model_dump, then a new
\* AttackScenario from the dumped value)
Revalidate ==
    /\ call.fn = "ensure_parenthetical"
    /\ call' = [fn |-> "revalidate", v |-> call.v, out |-> call.out,
                again |-> ensure_parenthetical(call.out)]
    /\ ScenarioFrame

NextScenario == Validate \/ Revalidate

SpecScenario == InitScenario /\ [][NextScenario]_vars


\* ----------------------------------------------------------------------
\* Every writer of the record store: the pipeline, the status updates, the
\* chatboxes (io/Chatbox.py), the adjudicator (model/Chat.py) and the bill
\* parser (database/parser.py).  Configuration: no API keys (all agents on
\* their mock paths), PRD and TDD present.
\* ----------------------------------------------------------------------
MaxEntries == 2

InitStore ==
    /\ Init
    /\ ~law /\ ~attacker /\ ~auditor
    /\ Len(load_document_ids(1)) = 2

\* Chatbox.append_message: one Message insert; a failed insert returns None
AppendMessage(c, role) ==
    /\ Resting
    /\ c \in chatboxes
    /\ Len(SelectSeq(Message, LAMBDA m : m.conv_id = c)) < MaxMessages
    /\ \E raised \in BOOLEAN :
          Message' = IF raised THEN Message
                     ELSE Append(Message, append_message_row(c, role, "hi"))
    /\ run' = IdleRun
    /\ UNCHANGED <<aside, agents, Document, Article_Entry, Audit, Issue, Conversation,
                   chatboxes, statusLog, nRuns>>

\* an upload that rewrites the conversation's latest message
upload_agent_message_Mut(conv_id, message) ==
    IF \E m \in DOMAIN Message : Message[m].conv_id = conv_id
    THEN LET last == CHOOSE m \in DOMAIN Message :
                        /\ Message[m].conv_id = conv_id
                        /\ \A n \in DOMAIN Message : Message[n].conv_id = conv_id => n <= m
         IN  [Message EXCEPT ![last].content = message]
    ELSE Message

\* Chat.__upload_agent_message: the Message table after the insert
upload_agent_message(conv_id, message) ==
    Append(Message, [msg_id |-> get_next_id(Message, "msg_id"), conv_id |-> conv_id,
                     type |-> "ai", content |-> message])

\* Chat.__edit_issue_status: update({"status": new_status}).eq("issue_id", issue_id)
edit_issue_status(issue_id, new_status) ==
    [k \in DOMAIN Issue |->
        IF Issue[k].issue_id = issue_id THEN [Issue[k] EXCEPT !.status = new_status]
        ELSE Issue[k]]

\* Chat.adjudicate(issue_id), from the generator's answer on (the reads and
\* the generator call before it write nothing).  conv_id is bound only when
\* the issue has a conversation; every store call may raise, which ends the
\* operation with what was written so far.
Adjudicate(issue_id, agent_message, new_status) ==
    /\ Resting
    /\ \E k \in DOMAIN Issue : Issue[k].issue_id = issue_id
    /\ LET convs == {c \in DOMAIN Conversation : Conversation[c].issue_id = issue_id}
           first == CHOOSE c \in convs : \A d \in convs : c <= d
           upload == agent_message # "" /\ convs # {}
           unbound == agent_message # "" /\ convs = {}
           edit == ~unbound /\ new_status = "document"
       IN  /\ upload => Len(SelectSeq(Message,
                               LAMBDA m : m.conv_id = Conversation[first].conv_id))
                        < MaxMessages
           /\ \E raisedAt \in {"none"} \cup (IF upload THEN {"upload"} ELSE {})
                                       \cup (IF edit THEN {"edit"} ELSE {}) :
                 /\ Message' = IF upload /\ raisedAt # "upload"
                               THEN upload_agent_message(Conversation[first].conv_id,
                                                         agent_message)
                               ELSE Message
                 /\ Issue' = IF edit /\ raisedAt = "none"
                             THEN edit_issue_status(issue_id, "document")
                             ELSE Issue
    /\ run' = IdleRun
    /\ UNCHANGED <<aside, agents, Document, Article_Entry, Audit, Conversation,
                   chatboxes, statusLog, nRuns>>

\* parser.save_to_db with one parsed record: ent_id from parser.get_next_id,
\* one batch insert into Article_Entry (Article_Entry holds the ent_ids)
SaveToDb ==
    /\ Resting
    /\ Len(Article_Entry) < MaxEntries
    /\ \E raised \in BOOLEAN :
          Article_Entry' = IF raised THEN Article_Entry
                           ELSE Append(Article_Entry, MaxOf(Range(Article_Entry)) + 1)
    /\ run' = IdleRun
    /\ UNCHANGED <<aside, agents, Document, Audit, Issue, Conversation, Message,
                   chatboxes, statusLog, nRuns>>

NextStore ==
    \/ \E p \in Projects : create_audit(p, "pending")
    \/ \E p \in Projects, n \in 0..MaxScenarios : run_audit_pipeline(p, n)
    \/ \E a \in 1..MaxAudits, n \in 0..MaxScenarios :
          run_audit_pipeline_for_audit_and_update(a, ProjectOf(a), n)
    \/ MarkInProgress
    \/ LoadDocumentIds
    \/ LawStage
    \/ AttackerStage
    \/ ProjectAudit
    \/ AuditorStage
    \/ CreateIssue
    \/ CreateConversation
    \/ SendFirstMessage
    \/ FinalStatus
    \/ \E c \in 0..MaxConvId : get_or_create_chatbox(c)
    \/ \E c \in 1..MaxConvId : AppendMessage(c, "user")
    \/ \E i \in 1..MaxIssues, msg \in {"", "A"}, st \in {"", "document"} :
          Adjudicate(i, msg, st)
    \/ SaveToDb

SpecStore == InitStore /\ [][NextStore]_vars


\* ----------------------------------------------------------------------
\* Attacker._embed_texts (model/Attackerv2.py): batches, pooling, width
\* normalization, stacking.  Vector entries are integers standing for the
\* normalized floats; the loaded model, in eval mode, is a function of the
\* text.
\* ----------------------------------------------------------------------
MaxTexts == 3

_TARGET_DIM == 4000

\* hidden sizes of the embedding model that may be loaded
NativeDims == {1024, 4000, 4096}

EmbedTexts == {"p", "q"}

TextLists == UNION { [1..n -> EmbedTexts] : n \in 0..MaxTexts }

\* batch=8 by default; a keyword argument
BatchSizes == {1, 2, 8}

\* F.normalize(pooled)[row of text]: entry i of the native vector, never 0 here
pooled(text, d) == [i \in 1..d |-> (IF text = "p" THEN 1 ELSE 2) + (i % 3)]

\* pooled[:, :TARGET] if d >= TARGET else cat([pooled, zeros(TARGET - d)])
fit_width(row) ==
    IF Len(row) >= _TARGET_DIM THEN SubSeq(row, 1, _TARGET_DIM)
    ELSE row \o [i \in 1..(_TARGET_DIM - Len(row)) |-> 0]

\* the list vecs after the loop: one matrix per chunk texts[i:i+batch]
RECURSIVE embed_chunks(_, _, _)
embed_chunks(texts, batch, d) ==
    IF texts = <<>> THEN <<>>
    ELSE LET chunk == SubSeq(texts, 1, Min(batch, Len(texts)))
             rest == SubSeq(texts, Len(chunk) + 1, Len(texts))
         IN  << [k \in DOMAIN chunk |-> fit_width(pooled(chunk[k], d))] >>
             \o embed_chunks(rest, batch, d)

RECURSIVE concat(_)
concat(mats) == IF mats = <<>> THEN <<>> ELSE Head(mats) \o concat(Tail(mats))

\* np.vstack(vecs): raises ValueError on an empty list of arrays
vstack(mats) ==
    IF mats = <<>> THEN [raised |-> TRUE, out |-> <<>>]
    ELSE [raised |-> FALSE, out |-> concat(mats)]

_embed_texts(texts, batch, d) == vstack(embed_chunks(texts, batch, d))

InitEmbed ==
    /\ NoPipeline
    /\ \E texts \in TextLists, batch \in BatchSizes, d \in NativeDims :
          call = [fn |-> "texts", texts |-> texts, batch |-> batch, d |-> d]

Embed ==
    /\ call.fn = "texts"
    /\ LET res == _embed_texts(call.texts, call.batch, call.d)
       IN  call' = [fn |-> "_embed_texts", texts |-> call.texts, batch |-> call.batch,
                    d |-> call.d, raised |-> res.raised, out |-> res.out]
    /\ UNCHANGED <<agents, store, chatboxes, run, statusLog, nRuns, ret, workers>>

NextEmbed == Embed

SpecEmbed == InitEmbed /\ [][NextEmbed]_vars


\* ----------------------------------------------------------------------
\* Database.save_audit / save_message as two store calls each: the select of
\* get_next_id, then the insert of save_data.  Each request runs on its own
\* thread; call[w] is the save operation of thread w.  Whether the store
\* rejects an insert with an id that is already present depends on the
\* table's constraints, which the source does not define: both outcomes.
\* ----------------------------------------------------------------------
MaxRows == 2

Savers == {1, 2}

IdTables == {"Audit", "Message"}

RowsOf(table) == IF table = "Audit" THEN Audit ELSE Message

IdField(table) == IF table = "Audit" THEN "audit_id" ELSE "msg_id"

IdsOf(table) == {RowsOf(table)[k][IdField(table)] : k \in DOMAIN RowsOf(table)}

\* seen: the ids the select of get_next_id found in the table
NoSave == [pc |-> "idle", table |-> "none", id |-> NoId, seen |-> {}]

\* the payload of save_audit / save_message with the generated id
save_payload(table, id) ==
    IF table = "Audit" THEN [audit_id |-> id, project_id |-> 1, status |-> "pending"]
    ELSE [msg_id |-> id, conv_id |-> 1, type |-> "user", content |-> "hi"]

InitIds ==
    /\ NoPipeline
    /\ call = [w \in Savers |-> NoSave]

IdsFrame == UNCHANGED <<agents, Document, Article_Entry, Issue, Conversation, chatboxes,
                        run, statusLog, nRuns, ret, workers>>

\* self.get_next_id(table, id_field), evaluated while the payload is built
GetNextId(w, table) ==
    /\ call[w].pc # "insert"
    /\ Len(RowsOf(table)) < MaxRows
    /\ call' = [call EXCEPT ![w] = [pc |-> "insert", table |-> table,
                                    id |-> get_next_id(RowsOf(table), IdField(table)),
                                    seen |-> IdsOf(table)]]
    /\ UNCHANGED <<Audit, Message>>
    /\ IdsFrame

\* self.save_data(table, payload): insert(data).execute()
SaveData(w) ==
    /\ call[w].pc = "insert"
    /\ \E raised \in BOOLEAN :
          /\ raised => call[w].id \in IdsOf(call[w].table)
          /\ call' = [call EXCEPT ![w].pc = IF raised THEN "raised" ELSE "saved"]
          /\ LET rows == IF raised THEN RowsOf(call[w].table)
                         ELSE Append(RowsOf(call[w].table),
                                     save_payload(call[w].table, call[w].id))
             IN  /\ Audit' = IF call[w].table = "Audit" THEN rows ELSE Audit
                 /\ Message' = IF call[w].table = "Message" THEN rows ELSE Message
    /\ IdsFrame

NextIds ==
    \/ \E w \in Savers, table \in IdTables : GetNextId(w, table)
    \/ \E w \in Savers : SaveData(w)

SpecIds == InitIds /\ [][NextIds]_vars


\* ----------------------------------------------------------------------
\* Properties
\* ----------------------------------------------------------------------
RECURSIVE IsSubseq(_, _)
IsSubseq(s, t) ==
    IF s = <<>> THEN TRUE
    ELSE IF t = <<>> THEN FALSE
    ELSE IF Head(s) = Head(t) THEN IsSubseq(Tail(s), Tail(t))
    ELSE IsSubseq(s, Tail(t))

NumEv(trace, e) == Cardinality({k \in DOMAIN trace : trace[k] = e})

StagePcs == {"docs", "law", "attacker", "auditor", "issue", "conv", "msg"}

Returned == run.kind # "none" /\ run.pc \in {"final", "done"}

\* rows of Issue inserted by the invocation in flight
RunIssueRows == (run.issues0 + 1)..Len(Issue)

ConvsOfIssue(id) == {c \in DOMAIN Conversation : Conversation[c].issue_id = id}

MsgsOfConv(id) == {m \in DOMAIN Message : Message[m].conv_id = id}

\* the invocations in flight or finished: the scheduled one and the suspended ones
Invocations == {run} \cup {workers[w] : w \in Workers}

Executing(r) == r.kind = "and_update" /\ r.pc \notin {"idle", "done"}

\* C18: runs for one audit_id are serialized: at most one invocation per
\* audit_id is between its transition to in_progress and its end at any time,
\* and an invocation triggered for an audit that is already in_progress,
\* completed or failed inserts no Issue and does not change its status.
C18_SerializedPerAudit ==
    /\ \A r1, r2 \in Invocations :
          (Executing(r1) /\ Executing(r2) /\ r1.audit_id = r2.audit_id) => r1 = r2
    /\ ~(Executing(run) /\ \E w \in Workers : workers[w] = run)
    /\ \A r \in Invocations :
          (r.kind = "and_update" /\ r.status0 \in {"in_progress", "completed", "failed"})
          => /\ "Issue" \notin Range(r.trace)
             /\ r.markOk => r.status0 = "in_progress"
             /\ r.finalOk => FinalStatusFor(r.res.ok) = r.status0

\* the 1-based ranks at which a key stands in a rank list
RanksOf(lst, key) == {r \in DOMAIN lst : lst[r] = key}

\* the reference score of a key: the sum over the lists of 1/(k_rrf + r), 0 for
\* a list the key is absent from
RECURSIVE RefScore(_, _, _)
RefScore(lists, key, k_rrf) ==
    IF lists = <<>> THEN 0
    ELSE (IF RanksOf(Head(lists), key) = {} THEN 0
          ELSE Reciprocal(k_rrf, CHOOSE r \in RanksOf(Head(lists), key) : TRUE))
         + RefScore(Tail(lists), key, k_rrf)

KeysOf(lists) == UNION { Range(lists[l]) : l \in DOMAIN lists }

\* C28: _rrf returns each distinct key of the input lists at most once, with
\* the score of the reference definition, in descending order of score, at
\* most top_n items, every key coming from an input list.
C28_RrfReference ==
    call.fn = "_rrf"
    => /\ \A i, j \in DOMAIN call.fused : call.fused[i].key = call.fused[j].key => i = j
       /\ \A i \in DOMAIN call.fused :
             /\ call.fused[i].key \in KeysOf(call.lists)
             /\ call.fused[i].rrf_score = RefScore(call.lists, call.fused[i].key, call.k_rrf)
       /\ \A i, j \in DOMAIN call.fused :
             i < j => call.fused[i].rrf_score >= call.fused[j].rrf_score
       /\ Len(call.fused) = Min(call.top_n, Cardinality(KeysOf(call.lists)))
       /\ \A key \in KeysOf(call.lists) :
             (\A i \in DOMAIN call.fused : call.fused[i].key # key)
             => \A i \in DOMAIN call.fused :
                   call.fused[i].rrf_score >= RefScore(call.lists, key, call.k_rrf)

\* a key that two lists hold at different ranks, and a truncated result
C28_Witness ==
    /\ call.fn = "_rrf"
    /\ Len(call.lists) = 2
    /\ \E key \in Keys : /\ RanksOf(call.lists[1], key) # {}
                         /\ RanksOf(call.lists[2], key) # {}
                         /\ RanksOf(call.lists[1], key) # RanksOf(call.lists[2], key)
    /\ 0 < Len(call.fused) /\ Len(call.fused) < Cardinality(KeysOf(call.lists))

OnlyInOne(lists, key) ==
    Cardinality({l \in DOMAIN lists : RanksOf(lists[l], key) # {}}) = 1

\* C22: for two rank lists, an item at rank 1 in both has the highest fused
\* score, is first in the output and stands before every item that appears in
\* only one list; fusing [[A,B,C],[B,A,C]] with k_rrf = 60 puts A and B before
\* C (the output order is a function of the inputs).
C22_RankOneInBothFirst ==
    (call.fn = "_rrf" /\ Len(call.lists) = 2 /\ call.top_n >= 1)
    => /\ \A x \in Keys :
             (RanksOf(call.lists[1], x) = {1} /\ RanksOf(call.lists[2], x) = {1})
             => /\ call.fused[1].key = x
                /\ \A key \in KeysOf(call.lists) \ {x} :
                      RefScore(call.lists, key, call.k_rrf) < call.fused[1].rrf_score
                /\ \A i \in DOMAIN call.fused :
                      OnlyInOne(call.lists, call.fused[i].key) => i > 1
       /\ (call.lists = << <<"A", "B", "C">>, <<"B", "A", "C">> >> /\ call.k_rrf = 60
            /\ call.top_n >= 3)
          => [i \in DOMAIN call.fused |-> call.fused[i].key] = <<"A", "B", "C">>

\* the item at rank 1 in both lists, fused with other items of both lists
C22_Witness ==
    /\ call.fn = "_rrf" /\ Len(call.lists) = 2 /\ call.top_n >= 2
    /\ Len(call.lists[1]) = 3 /\ Len(call.lists[2]) = 2
    /\ call.lists[1][1] = call.lists[2][1]
    /\ call.lists[1][2] # call.lists[2][2]
    /\ call.fused[1].key = call.lists[1][1]

\* C25: Law.audit, called by the pipeline with doc_ids only, returns an
\* ordered list of at most top_k entry ids (of type Law, of the configured bill).
C25_LawAuditReturnsIds ==
    (call # NoCall /\ call.fn = "__synthesize_documents" /\ call.bill = "missing")
    => /\ call.pc # "raised"
       /\ call.pc = "returned" => /\ call.result # NoResponse
                                  /\ Len(call.result) <= TopK

\* C26: each generator call of the Law Retriever runs under a bounded retry:
\* at most 5 attempts, no call after the first success, 2^n seconds of waiting
\* after the n-th failed attempt (from 0) when another attempt follows, and
\* the loop ends after the last failure.
C26_BoundedRetry ==
    (call # NoCall /\ call.pc # "raised")
    => /\ call.calls <= 5
       /\ call.response # NoResponse => call.pc # "try" /\ call.calls = call.fails + 1
       /\ call.fails >= 5 => call.pc # "try"
       /\ call.waits = [n \in 1..Min(call.fails, 4) |-> 2 ^ (n - 1)]

\* the stage an event of the trace belongs to
StageOf(e) ==
    CASE e = "docs" -> 1
      [] e = "law.audit" -> 2
      [] e = "attacker.run_attack" -> 3
      [] e = "Audit" -> 4
      [] OTHER -> 5

\* what may come directly after an event inside the scenario loop
FollowsInLoop(e, next) ==
    CASE e = "auditor.audit" -> next = "llm"
      [] e = "llm" -> next = "Issue"
      [] e = "Issue" -> next = "Conversation"
      [] e = "Conversation" -> next = "Message"
      [] e = "Message" -> next = IF auditor THEN "auditor.audit" ELSE "Issue"
      [] OTHER -> TRUE

\* C27: within one run the stages are strictly sequential: document
\* resolution, then law retrieval, then scenario generation, then the
\* scenarios one after the other, each as Auditor call, Issue insert,
\* Conversation insert, Message insert; the triple of scenario i is written
\* before scenario i+1 is audited.
C27_StagesSequential ==
    LET t == run.trace
    IN  /\ t # <<>> => t[1] = "docs"
        /\ \A p, q \in DOMAIN t : p < q => StageOf(t[p]) <= StageOf(t[q])
        /\ \A e \in {"docs", "law.audit", "attacker.run_attack", "Audit"} : NumEv(t, e) <= 1
        /\ \A p \in DOMAIN t : p < Len(t) => FollowsInLoop(t[p], t[p + 1])
        /\ \A p \in DOMAIN t :
              (auditor /\ t[p] = "Issue") => p > 2 /\ t[p - 1] = "llm" /\ t[p - 2] = "auditor.audit"
        /\ (law /\ run.pc \in {"attacker", "audit_row", "auditor", "issue", "conv", "msg"})
              => "law.audit" \in Range(t)
        /\ (attacker /\ run.pc \in {"audit_row", "auditor", "issue", "conv", "msg"})
              => "attacker.run_attack" \in Range(t)
        /\ run.pc \in {"auditor", "issue", "conv", "msg"}
              => /\ NumEv(t, "Message") = run.i - 1
                 /\ NumEv(t, "Conversation") = run.i - (IF run.pc = "msg" THEN 0 ELSE 1)
                 /\ NumEv(t, "Issue") = run.i - (IF run.pc \in {"conv", "msg"} THEN 0 ELSE 1)
                 /\ run.doc_ids # <<>> /\ run.ent_ids # <<>> /\ run.i <= Len(run.scenarios)

\* a run with generated scenarios and an available Auditor, at its second scenario
C27_Witness ==
    /\ attacker /\ auditor
    /\ run.pc = "msg" /\ run.i = 2
    /\ run.trace = <<"docs", "attacker.run_attack", "auditor.audit", "llm", "Issue",
                     "Conversation", "Message", "auditor.audit", "llm", "Issue",
                     "Conversation">>

\* C30: Auditor.audit fails fast on a missing citation: when a supplied law
\* entry id is not in the store it raises, before any generator call and
\* before anything is persisted for the scenario.
C30_MissingCitationFailsFast ==
    (auditor /\ "auditor.audit" \in Range(run.trace)
     /\ \E e \in Range(run.ent_ids) : e \notin Range(Article_Entry))
    => /\ run.auditorRaised
       /\ Returned /\ ~run.res.ok /\ run.res.error # Null
       /\ "llm" \notin Range(run.trace) /\ run.llmCalls = 0
       /\ Range(run.trace) \cap {"Issue", "Conversation", "Message"} = {}
       /\ Len(Issue) = run.issues0

\* the fallback ids 1, 2, 3 given to the Auditor while the store holds entry 1 only
C30_Witness ==
    /\ auditor
    /\ run.ent_ids = <<1, 2, 3>>
    /\ Range(Article_Entry) = {1}
    /\ run.auditorRaised /\ run.res.error = "Article not found"

\* C23: without a reranker, rerank returns the first top_k elements of the
\* fused list, in the same order and with the same content, and does not raise.
C23_RerankFallback ==
    (call.fn = "_cohere_rerank" /\ ~call.co)
    => /\ ~call.raised
       /\ Len(call.out) = Min(call.top_k, Len(call.docs))
       /\ \A i \in DOMAIN call.out : call.out[i] = call.docs[i]

\* a fused list cut short by the fallback
C23_Witness ==
    /\ call.fn = "_cohere_rerank" /\ ~call.co
    /\ Len(call.docs) = 3 /\ Len(call.out) = 2
    /\ call.docs[1].rrf_score > call.docs[2].rrf_score

\* the generation call failed: it raised, or it yielded no text
GenerationFailed(resp) ==
    \/ resp.kind = "error"
    \/ resp.content = <<>>
    \/ strip(resp.content[1]) = <<>>

\* C24: HyDE expansion never fails hard: when the generation call raises or
\* yields nothing, the expansion returns the original query text.
C24_HydeFallsBack ==
    (call.fn = "_hyde_expand" /\ GenerationFailed(call.resp))
    => /\ ~call.raised
       /\ call.out = call.query

\* the span id has no opening tag in span_text
AbsentFrom(span_text, span_id) ==
    \A p \in DOMAIN span_text, i \in SpanNumbers :
        span_text[p] = OpenTag(i) => SpanId(i) # span_id

Occurs(content, inner) ==
    \E p \in 0..(Len(content) - Len(inner)) : SubSeq(content, p + 1, p + Len(inner)) = inner

\* the inner text the parsed span_text holds for a requested id
InnerOf(span_id) == span_map_get(findall(call.content_span, 1), span_id)

\* the requested ids that cannot be resolved: absent from span_text, or with an
\* inner text that does not occur in the canonical text
Unresolvable ==
    {k \in DOMAIN call.target_spans :
        \/ AbsentFrom(call.content_span, call.target_spans[k])
        \/ ~Occurs(call.content, InnerOf(call.target_spans[k]))}

\* C21: get_span_ranges returns a list with at most one range per requested
\* id; an id absent from span_text, or whose inner text does not occur in the
\* canonical text, contributes no range, so the result is shorter than the
\* request by at least the number of such ids; an empty span_text gives an
\* empty list.
C21_DropsUnresolved ==
    call.fn = "highlight"
    => /\ Len(call.results) <= Len(call.target_spans) - Cardinality(Unresolvable)
       /\ Unresolvable # {} => Len(call.results) < Len(call.target_spans)
       /\ \A k \in DOMAIN call.results : call.results[k].start >= 0
       /\ call.content_span = <<>> => call.results = <<>>

\* a request with an unknown id and a resolvable one: one range comes back
C21_Witness ==
    /\ call.fn = "highlight"
    /\ Len(call.target_spans) = 2
    /\ Cardinality(Unresolvable) = 1
    /\ Len(call.results) = 1

\* the requested ids that resolve, in request order
Resolving == SelectSeq(call.target_spans,
                       LAMBDA t : InnerOf(t) # <<>> /\ Occurs(call.content, InnerOf(t)))

\* C29: each requested id that resolves yields the half-open range of the
\* first occurrence of its inner text: 0 <= start < end <= len(content),
\* content[start:end] is the inner text, no occurrence starts earlier; two
\* ids with the same inner text get the same range.
C29_FirstOccurrence ==
    call.fn = "highlight"
    => /\ Len(call.results) = Len(Resolving)
       /\ \A k \in DOMAIN call.results :
             LET r == call.results[k]
                 inner == InnerOf(Resolving[k])
             IN  /\ 0 <= r.start /\ r.start < r.end /\ r.end <= Len(call.content)
                 /\ Slice(call.content, r) = inner
                 /\ \A p \in 0..(r.start - 1) :
                       SubSeq(call.content, p + 1, p + Len(inner)) # inner
       /\ \A j, k \in DOMAIN call.results :
             InnerOf(Resolving[j]) = InnerOf(Resolving[k]) => call.results[j] = call.results[k]

\* two different ids with the same inner text, which occurs twice in the text
C29_Witness ==
    /\ call.fn = "highlight"
    /\ Len(call.results) = 2
    /\ call.target_spans[1] # call.target_spans[2]
    /\ call.results[1] = call.results[2]
    /\ \E p \in (call.results[1].start + 1)..(Len(call.content) - 1) :
          <<call.content[p + 1]>> = InnerOf(call.target_spans[1])

\* C20: span round trip: for a text split into N line units and span-wrapped,
\* resolving the single id of unit i (0 <= i < N) against the canonical text
\* returns exactly one range, and the text at that range equals unit i; also
\* for empty units, repeated units and units that escaping changes.
C20_SpanRoundTrip ==
    (call.fn = "get_span_ranges" /\ call.i < Len(splitlines(call.content)))
    => /\ Len(call.results) = 1
       /\ Slice(call.content, call.results[1]) = splitlines(call.content)[call.i + 1]

\* C17: every public operation of the facade returns a dict {ok, data, error};
\* ok = true implies error is null, ok = false implies data is null and error
\* is a string, also when the store or an agent raised.
C17_EnvelopeAlways ==
    ret.op # "none"
    => /\ ret.returned = "dict"
       /\ ret.res.ok => ret.res.error = Null
       /\ ~ret.res.ok => ret.res.data = <<>> /\ ret.res.error # Null

\* C1: for an Audit created pending by create_audit, the successive status
\* values observed (written by create_audit and by any number of
\* run_audit_pipeline_for_audit_and_update calls) form a subsequence of [pending, in_progress, completed] or of
\* [pending, in_progress, failed].
C1_StatusMonotonic ==
    \A a \in 1..MaxAudits :
        (statusLog[a] # <<>> /\ statusLog[a][1] = "pending")
        => \/ IsSubseq(statusLog[a], <<"pending", "in_progress", "completed">>)
           \/ IsSubseq(statusLog[a], <<"pending", "in_progress", "failed">>)

\* C2 (as claimed): during run_audit_pipeline_for_audit_and_update the stored
\* status is in_progress while the stages run, and on return it is completed
\* when the envelope has ok = true and failed when it has ok = false.
C2_StatusSetUnconditionally ==
    run.kind = "and_update"
    => /\ run.pc \in StagePcs => AuditStatus(run.audit_id) = "in_progress"
       /\ run.pc = "done"
          => AuditStatus(run.audit_id) = (IF run.res.ok THEN "completed" ELSE "failed")

\* C2 (amended): each of the two status writes takes effect when its
\* update_audit_status call succeeds and is skipped silently when that call
\* raises: while the stages run the stored status is in_progress if the first
\* write succeeded and the previous status otherwise; on return it is completed
\* (ok = true) or failed (ok = false, the failure text in the error field) if
\* the final write succeeded and otherwise what it was before that write,
\* whatever the number of issues produced.
C2_StatusFollowsEnvelope ==
    run.kind = "and_update"
    => LET before == IF run.markOk THEN "in_progress" ELSE run.status0
       IN  /\ run.pc \in StagePcs \cup {"final"} => AuditStatus(run.audit_id) = before
           /\ run.pc = "done"
              => /\ AuditStatus(run.audit_id) =
                        (IF run.finalOk
                         THEN (IF run.res.ok THEN "completed" ELSE "failed")
                         ELSE before)
                 /\ run.res.ok => run.res.error = Null
                 /\ ~run.res.ok => run.res.error # Null /\ run.res.data = <<>>

C2_Witness ==
    /\ run.kind = "and_update" /\ run.pc = "done"
    /\ run.markOk /\ run.finalOk /\ run.res.ok
    /\ Len(run.issues_out) >= 1
    /\ AuditStatus(run.audit_id) = "completed"

\* C3: every Audit row in the store has a status in
\* {pending, in_progress, completed, failed}.
C3_StatusInDomain == \A k \in DOMAIN Audit : Audit[k].status \in AuditStatuses

\* C4: end to end, for a project whose only document is one PRD, a law corpus
\* of one entry and a generator whose single-scenario batch cites that entry,
\* with no store or generator fault, a finished pipeline run leaves exactly one
\* Audit (completed), one Issue (ent_id the cited entry, open), and one
\* Conversation with one ai Message of non-empty content.
C4_EndToEnd ==
    ( /\ run.kind \in {"new", "and_update"} /\ run.pc = "done"
      /\ nRuns = 1 /\ ChatConvs = {} /\ Len(Audit) <= 1
      /\ run.project_id = 1 /\ run.max_scenarios = 1
      /\ load_document_ids(1) = <<1>>
      /\ Article_Entry = <<1>>
      /\ attacker /\ auditor
      /\ \A k \in DOMAIN run.scenarios : run.scenarios[k].law_citations = <<1>>
      /\ ~run.faulted )
    => /\ Len(Audit) = 1 /\ Audit[1].status = "completed"
       /\ Len(Issue) = 1 /\ Issue[1].ent_id = 1 /\ Issue[1].status = "open"
       /\ Len(Conversation) = 1 /\ Conversation[1].issue_id = Issue[1].issue_id
       /\ Len(Message) = 1 /\ Message[1].conv_id = Conversation[1].conv_id
       /\ Message[1].type = "ai" /\ Message[1].content # ""

\* C5: when a pipeline run returns ok, it inserted exactly one Issue per
\* scenario, in scenario order, all under its audit_id: the Issue rows inserted
\* during the run, the scenarios, data.issues and data.count agree in number.
C5_OneIssuePerScenario ==
    (Returned /\ run.res.ok)
    => LET d == run.res.data[1]
       IN  /\ d.count = Len(run.scenarios)
           /\ Len(d.issues) = Len(run.scenarios)
           /\ NumEv(run.trace, "Issue") = Len(run.scenarios)
           /\ Cardinality(RunIssueRows) = Len(run.scenarios)
           /\ \A k \in DOMAIN run.scenarios :
                 LET row == Issue[run.issues0 + k]
                 IN  /\ row.issue_id = d.issues[k].issue_id
                     /\ row.audit_id = run.audit_id
                     /\ row.ent_id = ent_id_for_issue(run.scenarios[k].law_citations)

C5_Witness ==
    /\ Returned /\ run.res.ok
    /\ Len(run.scenarios) = 2
    /\ run.res.data[1].count = 2

\* C6: whenever a pipeline run is between two scenarios or has returned, every
\* Issue it created has exactly one Conversation (same audit_id) and that
\* Conversation has exactly one Message, of type ai.
C6_TripleComplete ==
    (Returned \/ (run.pc = "auditor" /\ run.i > 1))
    => \A k \in RunIssueRows :
          /\ Cardinality(ConvsOfIssue(Issue[k].issue_id)) = 1
          /\ \A c \in ConvsOfIssue(Issue[k].issue_id) :
                /\ Conversation[c].audit_id = Issue[k].audit_id
                /\ Cardinality(MsgsOfConv(Conversation[c].conv_id)) = 1
                /\ \A m \in MsgsOfConv(Conversation[c].conv_id) : Message[m].type = "ai"

\* C7: in every steady state (no pipeline run in the middle of a scenario) each
\* Issue has a Conversation and each Conversation references an existing Issue.
C7_ConversationIffIssue ==
    (run.pc \notin {"issue", "conv", "msg"})
    => /\ \A k \in DOMAIN Issue : ConvsOfIssue(Issue[k].issue_id) # {}
       /\ \A c \in DOMAIN Conversation :
             \E k \in DOMAIN Issue : Issue[k].issue_id = Conversation[c].issue_id

\* C8: when the Auditor raises on a scenario (its generator call failed) the
\* run still returns ok and,
\* through run_audit_pipeline_for_audit_and_update, the Audit ends completed.
C8_AuditorFailureRecoverable ==
    (run.pc = "done" /\ run.auditorRaised /\ run.llmCalls > 0)
    => /\ run.res.ok
       /\ (run.kind = "and_update" /\ run.finalOk)
             => AuditStatus(run.audit_id) = "completed"

\* C9: the Auditor's generator call makes exactly k calls when attempt k <= 5 is
\* the first to succeed, and exactly 5 calls, then returning no result without
\* raising, when the first 5 attempts fail.
C9_RetryCeiling ==
    run.llmCalls > 0
    => /\ ~run.auditorRaised
       /\ run.llmCalls = (IF run.llmFirstOk \in 1..5 THEN run.llmFirstOk ELSE 5)

NoDocuments == load_document_ids(run.project_id) = <<>>

FailFast ==
    /\ ~run.res.ok
    /\ run.res.error # Null
    /\ Range(run.trace) \subseteq {"docs"}
    /\ Len(Issue) = run.issues0

\* C10 (as claimed): a run for a project without documents returns ok = false
\* with an error, invokes no agent and inserts no row, and through
\* run_audit_pipeline_for_audit_and_update the Audit ends failed.
C10_NoDocumentsEndsFailed ==
    (Returned /\ NoDocuments)
    => /\ FailFast
       /\ (run.kind = "and_update" /\ run.pc = "done")
             => AuditStatus(run.audit_id) = "failed"

\* C10 (amended): a run for a project without documents returns ok = false with
\* an error, invokes no agent and inserts no row; through
\* run_audit_pipeline_for_audit_and_update the Audit ends failed when the final
\* update_audit_status call succeeds, and keeps its earlier status when that
\* call raises.
C10_NoDocumentsFailFast ==
    (Returned /\ NoDocuments)
    => /\ FailFast
       /\ (run.kind = "and_update" /\ run.pc = "done")
             => AuditStatus(run.audit_id) =
                   (IF run.finalOk THEN "failed"
                    ELSE IF run.markOk THEN "in_progress" ELSE run.status0)

C10_Witness ==
    /\ run.kind = "and_update" /\ run.pc = "done"
    /\ NoDocuments /\ ~run.faulted
    /\ run.trace = <<"docs">>
    /\ AuditStatus(run.audit_id) = "failed"

\* document ids of the project that owns audit a
ProjectDocIds(a) ==
    {Document[j].doc_id : j \in {d \in DOMAIN Document : Document[d].project_id = ProjectOf(a)}}

\* C11: once the document check has passed, a Law Retriever that is unavailable
\* or whose audit call raises is replaced by a mock citation list: the run goes
\* on to scenario generation with a non-empty ent_ids list and never returns
\* the Law Retriever's error.
C11_LawFailureFallsBack ==
    (run.kind # "none" /\ run.doc_ids # <<>> /\ run.pc # "law")
    => /\ run.ent_ids # <<>>
       /\ run.res.error # LawAuditError

\* C12: when the Attacker is unavailable or returned an empty batch, the run
\* continues with exactly max_scenarios mock scenarios whose law_citations are
\* non-empty and hold only ids of the retrieved ent_ids; without a later
\* failure the run returns ok.
C12_MockScenarios ==
    (run.attack = "unavailable" \/ (run.attack = "returned" /\ run.gen.count = 0))
    => /\ Len(run.scenarios) = run.max_scenarios
       /\ \A k \in DOMAIN run.scenarios :
             /\ run.scenarios[k].src = "mock"
             /\ run.scenarios[k].law_citations # <<>>
             /\ Range(run.scenarios[k].law_citations) \subseteq Range(run.ent_ids)
       /\ (Returned /\ ~run.faulted /\ ~run.auditorRaised) => run.res.ok

C12_Witness ==
    /\ run.attack = "unavailable" /\ run.pc = "done" /\ run.res.ok
    /\ run.max_scenarios = 2 /\ Len(run.scenarios) = 2
    /\ run.res.data[1].count = 2

\* C13: with the Law Retriever, the Attacker and the Auditor all unavailable, a
\* project with a document and no store fault, a finished pipeline run
\* (run_audit_pipeline, or run_audit_pipeline_for_audit_and_update) returns ok
\* with count = max_scenarios, every Issue of the run carries the mock judgment
\* (no evidence, non-empty clarification question) and the Audit is completed.
C13_UnavailableAgentsComplete ==
    ( /\ ~law /\ ~attacker /\ ~auditor
      /\ run.kind \in {"new", "and_update"} /\ run.pc = "done"
      /\ run.doc_ids # <<>> /\ ~run.faulted )
    => /\ run.res.ok
       /\ run.res.data[1].count = run.max_scenarios
       /\ Cardinality(RunIssueRows) = run.max_scenarios
       /\ \A k \in RunIssueRows :
             /\ Issue[k].issue_description = MockReasoning
             /\ Issue[k].evidence = {}
             /\ Issue[k].clarification_qn # ""
       /\ AuditStatus(run.audit_id) = "completed"

\* C14: a run_attack call with max_n = n that returns does so with a batch of
\* exactly n scenarios, taken from a generator answer of exactly n valid
\* scenarios; every other answer makes it raise.
C14_ExactlyMaxN ==
    /\ run.attack = "returned"
       => /\ run.gen.kind = "json" /\ run.gen.schema_ok
          /\ run.gen.count = run.max_scenarios
          /\ Len(run.scenarios) = run.max_scenarios
    /\ run.gen.kind # "none" => run.attack \in {"returned", "raised"}

C14_Witness ==
    /\ run.attack = "returned" /\ run.max_scenarios = 2
    /\ Len(run.scenarios) = 2
    /\ \A k \in DOMAIN run.scenarios : run.scenarios[k].src = "attacker"

\* C15: every scenario the pipeline evaluates, generated or mock, has a
\* non-empty law_citations list and a non-empty prd_spans list.
C15_ScenariosNonEmptyLists ==
    \A k \in DOMAIN run.scenarios :
        /\ run.scenarios[k].law_citations # <<>>
        /\ run.scenarios[k].prd_spans # <<>>

\* C16: when the generator's answer has a wrong scenario count or does not
\* match the schema, run_attack raises, no mock scenarios are substituted, the
\* run inserts no Audit, Issue, Conversation or Message and returns ok = false
\* with the error.
C16_ValidationFailureSurfaced ==
    (run.gen.kind = "json" /\ (run.gen.count # run.max_scenarios \/ ~run.gen.schema_ok))
    => /\ run.attack = "raised"
       /\ run.scenarios = <<>>
       /\ Returned /\ ~run.res.ok /\ run.res.error # Null /\ run.res.data = <<>>
       /\ Len(Issue) = run.issues0
       /\ Range(run.trace) \cap {"Audit", "Issue", "Conversation", "Message", "auditor.audit"} = {}

C16_Witness ==
    /\ run.gen.kind = "json" /\ run.gen.schema_ok
    /\ run.max_scenarios = 2 /\ run.gen.count = 3
    /\ run.pc = "done" /\ ~run.res.ok

\* C19: the keys of the evidence mapping of every Issue are document ids of the
\* project that owns the Issue's Audit.
C19_EvidenceKeysInProject ==
    \A k \in DOMAIN Issue :
        AuditExists(Issue[k].audit_id) => Issue[k].evidence \subseteq ProjectDocIds(Issue[k].audit_id)


\* s ends with an "(Attack vector: ...)" annotation
EndsWithAnnotation(s) ==
    /\ Len(s) >= 3
    /\ s[Len(s)] = ")"
    /\ \E p \in 1..(Len(s) - 2) : s[p] = AttackVector

\* C31: after validation the description ends with an "(Attack vector: ...)"
\* annotation; a description lacking it gets the placeholder appended to its
\* stripped text, one that already ends with it is returned stripped and
\* otherwise unchanged, and validating the result again changes nothing.
C31_AnnotationIdempotent ==
    call.fn \in {"ensure_parenthetical", "revalidate"} =>
        LET s == str_strip(call.v)
        IN  /\ EndsWithAnnotation(call.out)
            /\ ~EndsWithAnnotation(s) =>
                /\ Len(call.out) >= Len(s) + Len(PLACEHOLDER_PAREN)
                /\ SubSeq(call.out, 1, Len(s)) = s
                /\ SubSeq(call.out, Len(call.out) - 3, Len(call.out)) = PLACEHOLDER_PAREN
            /\ PAREN_RE_search(s) => call.out = s
            /\ call.fn = "revalidate" => call.again = call.out

\* an annotated description with surrounding whitespace was validated twice
C31_Witness ==
    /\ call.fn = "revalidate"
    /\ PAREN_RE_search(str_strip(call.v))
    /\ call.v # str_strip(call.v)
    /\ call.again = str_strip(call.v)



\* C32: each Issue persisted by the pipeline has ent_id equal to the first
\* element of its own scenario's law_citations, or -1 when that list is
\* empty, and is created with status open.
C32_IssueCitesFirstLaw ==
    run.kind # "none"
    => \A k \in RunIssueRows :
          LET cited == run.scenarios[k - run.issues0].law_citations
          IN  /\ Issue[k].status = "open"
              /\ cited = <<>> => Issue[k].ent_id = -1
              /\ cited # <<>> => Issue[k].ent_id = Head(cited)

\* one run persisted an Issue for a scenario without citations and one for a
\* scenario citing entry 1
C32_Witness ==
    /\ run.kind # "none" /\ Len(run.scenarios) = 2
    /\ run.scenarios[1].law_citations = <<>> /\ run.scenarios[2].law_citations = <<1>>
    /\ Len(Issue) = run.issues0 + 2
    /\ Issue[run.issues0 + 1].ent_id = -1 /\ Issue[run.issues0 + 2].ent_id = 1


\* the Issue rows a Message belongs to, through its Conversation
IssuesOfMessage(m) ==
    {k \in DOMAIN Issue :
        \E c \in DOMAIN Conversation : /\ Conversation[c].conv_id = Message[m].conv_id
                                       /\ Conversation[c].issue_id = Issue[k].issue_id}

\* C33: the seed Message of every Conversation created by the pipeline has
\* type ai and non-empty content: the judgment's clarification question, or
\* the default prompt when the judgment produced none or no judgment was
\* obtained.
C33_SeedMessage ==
    \A m \in DOMAIN Message :
        /\ Message[m].type = "ai"
        /\ Message[m].content # ""
        /\ IssuesOfMessage(m) # {}
        /\ \A k \in IssuesOfMessage(m) :
              /\ Issue[k].clarification_qn # "" => Message[m].content = Issue[k].clarification_qn
              /\ Issue[k].clarification_qn = "" => Message[m].content = DefaultPrompt
        /\ ~auditor => Message[m].content = MockQuestion

\* an Auditor answer without a judgment, seeded with the default prompt, next
\* to one that carries a question
C33_Witness ==
    /\ auditor /\ Len(Message) = 2
    /\ Message[1].content = DefaultPrompt /\ Message[2].content = "Q"
    /\ \A k \in IssuesOfMessage(1) : Issue[k].issue_description = ""


\* rows keeps every row of a table, with the same contents
Kept(rows, rows2) ==
    /\ Len(rows2) >= Len(rows)
    /\ \A k \in DOMAIN rows : rows2[k] = rows[k]

\* the same, but for the status field
KeptButStatus(rows, rows2) ==
    /\ Len(rows2) >= Len(rows)
    /\ \A k \in DOMAIN rows : [rows2[k] EXCEPT !.status = rows[k].status] = rows[k]

C36_GeneratedIdsUnique ==
    \A table \in IdTables :
        /\ \A j, k \in DOMAIN RowsOf(table) :
              RowsOf(table)[j][IdField(table)] = RowsOf(table)[k][IdField(table)] => j = k
        /\ \A w \in Savers :
              (call[w].pc # "idle" /\ call[w].table = table)
              => /\ \A id \in call[w].seen : call[w].id > id
                 /\ call[w].seen = {} => call[w].id = 1


\* C38: get_conversation returns the id of a Conversation row that exists in
\* the store when it returns, also when a store call fails; so every Chatbox
\* registered by get_or_create_chatbox is bound to an existing Conversation.
C38_ChatboxBoundToConversation == \A c \in chatboxes : ConvExists(c)


\* C37: every run of run_audit_pipeline that finds at least one document
\* leaves exactly one new Audit row recording it, whether it returns ok or an
\* error; a run that returns an error after the document check never leaves
\* zero Audit rows, and never leaves Issues under an Audit whose status does
\* not show the failure.
C37_AuditRowPerRun ==
    (run.kind = "new" /\ run.pc = "done" /\ run.doc_ids # <<>>)
    => /\ NumEv(run.trace, "Audit") = 1
       /\ AuditExists(run.audit_id)
       /\ ~run.res.ok => \A k \in RunIssueRows : AuditStatus(Issue[k].audit_id) = "failed"


\* the trace without the Audit insert
WithoutAudit(t) == SelectSeq(t, LAMBDA e : e # "Audit")

RECURSIVE Repeat(_, _)
Repeat(s, n) == IF n = 0 THEN <<>> ELSE s \o Repeat(s, n - 1)

\* the collaborator calls and the Issue, Conversation and Message inserts of a
\* run over n scenarios that nothing interrupts, whichever entry point started it
FullTrace(n) ==
    <<"docs">>
    \o (IF law THEN <<"law.audit">> ELSE <<>>)
    \o (IF attacker THEN <<"attacker.run_attack">> ELSE <<>>)
    \o Repeat((IF auditor THEN <<"auditor.audit", "llm">> ELSE <<>>)
              \o <<"Issue", "Conversation", "Message">>, n)

IsPrefix(s, t) == Len(s) <= Len(t) /\ SubSeq(t, 1, Len(s)) = s

====
